---- MODULE Spec2Model ----
(***************************************************************************)
(* A model of scripts/gen.py, the generator of the ATEN -> XLA default     *)
(* wrappers and of their registration tables.                              *)
(*                                                                         *)
(* Texts are sequences of one-character strings, so that the span          *)
(* emitter, the key canonicalisation and the textual rewrites are          *)
(* computed on characters and columns exactly as the script computes them. *)
(***************************************************************************)
EXTENDS Integers, Sequences, FiniteSets, TLC

\* ------------------------------------------------------------------ bounds

\* Longest declaration file (in lines) the generator run is given.
MaxDecls == 2

\* Number of successive edits applied to a signature text.
MaxEdits == 2

\* Most outputs an out-variant function returns in a tuple.
MaxOutputs == 3

\* Most parameters an out-variant function takes.
MaxParams == 4

\* Most override declarations the AtenXlaType class is given.
MaxOverrides == 2

\* ------------------------------------------------------------- characters

Lower == {"a","b","c","d","e","f","g","h","i","j","k","l","m",
          "n","o","p","q","r","s","t","u","v","w","x","y","z"}

Upper == {"A","B","C","D","E","F","G","H","I","J","K","L","M",
          "N","O","P","Q","R","S","T","U","V","W","X","Y","Z"}

Digit == {"0","1","2","3","4","5","6","7","8","9"}

\* The characters of TNAME, /[a-zA-Z0-9_:]+/.
TNameChars == Lower \cup Upper \cup Digit \cup {"_", ":"}

\* The characters a python \w matches, which decide the \b of a regex.
WordChars == Lower \cup Upper \cup Digit \cup {"_"}

\* common.WS of a one-line text.
WSChars == {" ", "\t", "\f", "\r"}

\* The anonymous one-character terminals of the grammar, and REF and PTR.
PunctName == [c \in {"(", ")", "<", ">", ",", "=", "&", "*"} |->
                CASE c = "(" -> "LPAR"
                  [] c = ")" -> "RPAR"
                  [] c = "<" -> "LESSTHAN"
                  [] c = ">" -> "MORETHAN"
                  [] c = "," -> "COMMA"
                  [] c = "=" -> "EQUAL"
                  [] c = "&" -> "REF"
                  [] c = "*" -> "PTR"]

\* Terminals written as strings inside the rules: the reduced parser drops them.
AnonymousTokens == {"LPAR", "RPAR", "LESSTHAN", "MORETHAN", "COMMA", "EQUAL",
                    "TRUE", "FALSE", "LBRACE_RBRACE"}

\* ------------------------------------------------------------------ texts

RECURSIVE Cat(_)
\* ''.join(parts)
Cat(parts) == IF parts = <<>> THEN <<>> ELSE Head(parts) \o Cat(Tail(parts))

RECURSIVE Join(_, _)
\* sep.join(parts)
Join(sep, parts) ==
  IF parts = <<>> THEN <<>>
  ELSE IF Len(parts) = 1 THEN parts[1]
  ELSE parts[1] \o sep \o Join(sep, Tail(parts))

\* s[a:b] of python, for 0 <= a: characters a .. b-1 of the 0-based text.
Slice(s, a, b) == SubSeq(s, a + 1, IF b > Len(s) THEN Len(s) ELSE b)

\* s.startswith(p, i) for the 1-based position i.
StartsAt(s, p, i) == i + Len(p) - 1 <= Len(s) /\ SubSeq(s, i, i + Len(p) - 1) = p

RECURSIVE ReplaceFrom(_, _, _, _)
\* The text from position i on, every occurrence of old replaced, left to
\* right and without overlap.
ReplaceFrom(s, old, new, i) ==
  LET hits == {j \in i..Len(s) : StartsAt(s, old, j)}
  IN  IF hits = {} THEN SubSeq(s, i, Len(s))
      ELSE LET j == CHOOSE h \in hits : \A g \in hits : h <= g
           IN  SubSeq(s, i, j - 1) \o new \o ReplaceFrom(s, old, new, j + Len(old))

\* s.replace(old, new), for a non-empty old
Replace(s, old, new) == ReplaceFrom(s, old, new, 1)

\* s.find(sub) >= 0
Contains(s, sub) == \E i \in 1..Len(s) : StartsAt(s, sub, i)

\* s.find(sub), 0-based, -1 when absent.
Find(s, sub) ==
  IF Contains(s, sub)
  THEN (CHOOSE i \in 1..Len(s) : StartsAt(s, sub, i) /\ \A j \in 1..(i-1) : ~StartsAt(s, sub, j)) - 1
  ELSE -1

\* re.search(r'\bword\b', s) is not None
HasWord(s, word) ==
  \E i \in 1..Len(s) :
    /\ StartsAt(s, word, i)
    /\ (i = 1 \/ s[i-1] \notin WordChars)
    /\ (i + Len(word) > Len(s) \/ s[i + Len(word)] \notin WordChars)

\* ------------------------------------------------------- lexer and parser
\* lark's LALR parser with its contextual lexer, for _GRAMMAR. A token keeps
\* lark's 1-based column and end_column (exclusive) in the one-line text.

Tok(type, value, column, end_column) ==
  [k |-> "tok", type |-> type, value |-> value,
   column |-> column, end_column |-> end_column]

Tree(data, children) == [k |-> "tree", data |-> data, children |-> children]

IsToken(t) == t.k = "tok"

\* The position after the longest run of characters of cls that starts at i.
RunEnd(s, i, cls) ==
  LET stops == {j \in i..Len(s) : s[j] \notin cls}
  IN  IF stops = {} THEN IF i > Len(s) THEN i ELSE Len(s) + 1
      ELSE CHOOSE j \in stops : \A k \in stops : j <= k

\* A sign at i that a digit follows: the start of a SIGNED_NUMBER.
SignedAt(s, i) == s[i] \in {"-", "+"} /\ i < Len(s) /\ s[i + 1] \in Digit

\* The digit at j belongs to a SIGNED_NUMBER: a sign precedes its run.
InSigned(s, j) ==
  /\ s[j] \in Digit
  /\ \E d \in 2..j : /\ \A k \in d..j : s[k] \in Digit
                     /\ s[d - 1] \in {"-", "+"}

\* A token starts at j: no blank is there and no token that started before
\* j holds it (a run of name characters, a signed number or a '{}').
TokenStart(s, j) ==
  /\ s[j] \notin WSChars
  /\ ~InSigned(s, j)
  /\ ~(s[j] \in TNameChars /\ j > 1 /\ s[j - 1] \in TNameChars /\ ~InSigned(s, j - 1))
  /\ ~(s[j] = "}" /\ j > 1 /\ s[j - 1] = "{")

\* The token that starts at i; an unexpected character gives an ERROR
\* token (lark raises UnexpectedCharacters).
\* A run of name characters is one WORD, which the parser's state types
\* as CONST, TNAME, CNAME, a keyword or a number (the contextual lexer).
TokAt(s, i) ==
  IF s[i] \in TNameChars
    THEN Tok("WORD", SubSeq(s, i, RunEnd(s, i, TNameChars) - 1), i,
             RunEnd(s, i, TNameChars))
  ELSE IF s[i] \in DOMAIN PunctName THEN Tok(PunctName[s[i]], <<s[i]>>, i, i + 1)
  ELSE IF StartsAt(s, <<"{", "}">>, i) THEN Tok("LBRACE_RBRACE", <<"{", "}">>, i, i + 2)
  ELSE IF SignedAt(s, i)
    THEN Tok("SIGNED_NUMBER", SubSeq(s, i, RunEnd(s, i + 1, Digit) - 1), i,
             RunEnd(s, i + 1, Digit))
  ELSE Tok("ERROR", <<s[i]>>, i, i + 1)

\* The tokens of s in order, up to the first ERROR token.
LexOf(s, starts) ==
  [n \in 1..Cardinality(starts) |->
     TokAt(s, CHOOSE i \in starts : Cardinality({j \in starts : j < i}) = n - 1)]

Lex(s) ==
  LET all == {j \in 1..Len(s) : TokenStart(s, j)}
      bad == {j \in all : TokAt(s, j).type = "ERROR"}
  IN  LexOf(s, {j \in all : \A e \in bad : j <= e})

\* common.CNAME: ("_"|LETTER) ("_"|LETTER|DIGIT)*
IsCName(v) ==
  /\ v # <<>>
  /\ v[1] \in Lower \cup Upper \cup {"_"}
  /\ \A i \in 1..Len(v) : v[i] \in WordChars

IsConstWord(v) == v = <<"c", "o", "n", "s", "t">>

\* The type a WORD takes where an init_value is expected, "" when none.
\* (NUMBER is modelled for integers only.)
InitValueType(v) ==
  IF v = <<"t", "r", "u", "e">> THEN "TRUE"
  ELSE IF v = <<"f", "a", "l", "s", "e">> THEN "FALSE"
  ELSE IF \A i \in 1..Len(v) : v[i] \in Digit THEN "NUMBER"
  ELSE IF /\ Len(v) > 2 /\ v[1] = "0" /\ v[2] = "x"
          /\ \A i \in 3..Len(v) : v[i] \in Digit \cup {"a","b","c","d","e","f","A","B","C","D","E","F"}
    THEN "HEXNUMBER"
  ELSE ""

\* A parse step's result: the tree built and the index of the next token.
Parsed(tree, next) == [ok |-> TRUE, tree |-> tree, next |-> next]

ParseFail == [ok |-> FALSE, tree |-> Tree("error", <<>>), next |-> 0]

TokIs(ts, i, type) == i <= Len(ts) /\ ts[i].type = type

Retype(t, type) == [t EXCEPT !.type = type]

RECURSIVE ParseType(_, _)
RECURSIVE ParseTypeList(_, _)

\* core_type: template | TNAME        template: TNAME "<" typelist ">"
\* (tl is the parse of the typelist that would follow TNAME "<".)
CoreType(ts, j, tl) ==
  IF TokIs(ts, j + 1, "LESSTHAN")
    THEN Tree("core_type",
              <<Tree("template",
                     <<Retype(ts[j], "TNAME"), ts[j + 1], tl.tree, ts[tl.next]>>)>>)
    ELSE Tree("core_type", <<Retype(ts[j], "TNAME")>>)

\* refspec: REF | PTR, optional after the core type that ends before n.
WithRefspec(ts, n, pre, core) ==
  IF TokIs(ts, n, "REF") \/ TokIs(ts, n, "PTR")
    THEN Parsed(Tree("type", pre \o <<core, Tree("refspec", <<ts[n]>>)>>), n + 1)
    ELSE Parsed(Tree("type", pre \o <<core>>), n)

\* The part of a type after the optional CONST (kept in pre).
ParseCore(ts, j, pre, tl) ==
  IF ~(TokIs(ts, j, "WORD") /\ ~IsConstWord(ts[j].value)) THEN ParseFail
  ELSE IF ~TokIs(ts, j + 1, "LESSTHAN")
    THEN WithRefspec(ts, j + 1, pre, CoreType(ts, j, tl))
  ELSE IF ~(tl.ok /\ TokIs(ts, tl.next, "MORETHAN")) THEN ParseFail
  ELSE WithRefspec(ts, tl.next + 1, pre, CoreType(ts, j, tl))

\* type: CONST? core_type refspec?
ParseType(ts, i) ==
  IF TokIs(ts, i, "WORD") /\ IsConstWord(ts[i].value)
    THEN ParseCore(ts, i + 1, <<Retype(ts[i], "CONST")>>, ParseTypeList(ts, i + 3))
    ELSE ParseCore(ts, i, <<>>, ParseTypeList(ts, i + 2))

TypeListRest(ts, t, rest) ==
  IF ~rest.ok THEN ParseFail
  ELSE Parsed(Tree("typelist", <<t.tree, ts[t.next], rest.tree>>), rest.next)

TypeListOf(ts, t) ==
  IF ~t.ok THEN ParseFail
  ELSE IF TokIs(ts, t.next, "COMMA")
    THEN TypeListRest(ts, t, ParseTypeList(ts, t.next + 1))
    ELSE Parsed(Tree("typelist", <<t.tree>>), t.next)

\* typelist: type | type "," typelist
ParseTypeList(ts, i) == TypeListOf(ts, ParseType(ts, i))

\* The type of the token at an init_value position, "" when it is none of
\* TRUE, FALSE, "{}", NUMBER, SIGNED_NUMBER, HEXNUMBER.
DefvalType(tok) ==
  IF tok.type = "WORD" THEN InitValueType(tok.value)
  ELSE IF tok.type \in {"LBRACE_RBRACE", "SIGNED_NUMBER"} THEN tok.type
  ELSE ""

\* param_defval: "=" init_value, optional after the name that ends before e.
WithDefval(ts, e, t, name) ==
  IF ~TokIs(ts, e, "EQUAL") THEN Parsed(Tree("param", <<t.tree, name>>), e)
  ELSE IF e + 1 > Len(ts) THEN ParseFail
  ELSE IF DefvalType(ts[e + 1]) = "" THEN ParseFail
  ELSE Parsed(Tree("param",
                   <<t.tree, name,
                     Tree("param_defval",
                          <<ts[e],
                            Tree("init_value",
                                 <<Retype(ts[e + 1], DefvalType(ts[e + 1]))>>)>>)>>),
              e + 2)

ParamOf(ts, t) ==
  IF ~t.ok THEN ParseFail
  ELSE IF ~(TokIs(ts, t.next, "WORD") /\ IsCName(ts[t.next].value)) THEN ParseFail
  ELSE WithDefval(ts, t.next + 1, t,
                  Tree("param_name", <<Retype(ts[t.next], "CNAME")>>))

\* param: type param_name param_defval?
ParseParam(ts, i) == ParamOf(ts, ParseType(ts, i))

RECURSIVE ParseParams(_, _)

ParamsRest(ts, p, rest) ==
  IF ~rest.ok THEN ParseFail
  ELSE Parsed(Tree("params", <<p.tree, ts[p.next], rest.tree>>), rest.next)

ParamsOf(ts, p) ==
  IF ~p.ok THEN ParseFail
  ELSE IF TokIs(ts, p.next, "COMMA")
    THEN ParamsRest(ts, p, ParseParams(ts, p.next + 1))
    ELSE Parsed(Tree("params", <<p.tree>>), p.next)

\* params: param | param "," params
ParseParams(ts, i) == ParamsOf(ts, ParseParam(ts, i))

StartOf(ts, t, ps) ==
  IF ~ps.ok THEN ParseFail
  ELSE IF ~(TokIs(ts, ps.next, "RPAR") /\ ps.next = Len(ts)) THEN ParseFail
  ELSE Parsed(Tree("start",
                   <<t.tree, Tree("fnname", <<Retype(ts[t.next], "CNAME")>>),
                     ts[t.next + 1], ps.tree, ts[ps.next]>>),
              ps.next + 1)

FnNameOf(ts, t) ==
  IF ~t.ok THEN ParseFail
  ELSE IF ~(TokIs(ts, t.next, "WORD") /\ IsCName(ts[t.next].value)) THEN ParseFail
  ELSE IF ~TokIs(ts, t.next + 1, "LPAR") THEN ParseFail
  ELSE StartOf(ts, t, ParseParams(ts, t.next + 2))

\* start: type fnname "(" params ")"     fnname: CNAME
ParseStart(ts) == FnNameOf(ts, ParseType(ts, 1))

\* _XPARSER.parse(sig): the verbatim tree, every token kept; ok is FALSE
\* where lark raises.
XPARSER(sig) == ParseStart(Lex(sig))

RECURSIVE Reduced(_)
\* The tree of the reduced parser: the same derivation with the anonymous
\* tokens filtered out of every node.
Reduced(t) ==
  IF IsToken(t) THEN t
  ELSE LET kept == SelectSeq(t.children,
                             LAMBDA c : ~(IsToken(c) /\ c.type \in AnonymousTokens))
       IN  Tree(t.data, [n \in 1..Len(kept) |-> Reduced(kept[n])])

\* _PARSER.parse(sig)
PARSER(sig) ==
  LET x == XPARSER(sig)
  IN  IF x.ok THEN Parsed(Reduced(x.tree), x.next) ELSE ParseFail

\* ------------------------------------------------------------------ words
\* The names the script compares texts with, as character sequences.

s_Tensor == <<"T","e","n","s","o","r">>

s_TensorList == <<"T","e","n","s","o","r","L","i","s","t">>

s_Scalar == <<"S","c","a","l","a","r">>

s_Storage == <<"S","t","o","r","a","g","e">>

s_IntList == <<"I","n","t","L","i","s","t">>

s_IntArrayRef == <<"I","n","t","A","r","r","a","y","R","e","f">>

s_ArrayRef == <<"A","r","r","a","y","R","e","f">>

s_Generator == <<"G","e","n","e","r","a","t","o","r">>

s_Layout == <<"L","a","y","o","u","t">>

s_ScalarType == <<"S","c","a","l","a","r","T","y","p","e">>

s_TensorOptions == <<"T","e","n","s","o","r","O","p","t","i","o","n","s">>

s_SparseTensorRef == <<"S","p","a","r","s","e","T","e","n","s","o","r","R",
  "e","f">>

s_Device == <<"D","e","v","i","c","e">>

s_optional == <<"o","p","t","i","o","n","a","l">>

s_MemoryFormat == <<"M","e","m","o","r","y","F","o","r","m","a","t">>

s_QScheme == <<"Q","S","c","h","e","m","e">>

s_ConstQuantizerPtr == <<"C","o","n","s","t","Q","u","a","n","t","i","z","e",
  "r","P","t","r">>

s_Dimname == <<"D","i","m","n","a","m","e">>

s_DimnameList == <<"D","i","m","n","a","m","e","L","i","s","t">>

s_void == <<"v","o","i","d">>

s_self == <<"s","e","l","f">>

s_const == <<"c","o","n","s","t">>

\* 'at::'
s_at == <<"a","t",":",":">>

\* 'c10::'
s_c10 == <<"c","1","0",":",":">>

\* 'c10::Device'
s_c10_Device == <<"c","1","0",":",":","D","e","v","i","c","e">>

\* 'c10::optional'
s_c10_optional == <<"c","1","0",":",":","o","p","t","i","o","n","a","l">>

\* 'std::tuple'
s_std_tuple == <<"s","t","d",":",":","t","u","p","l","e">>

\* 'std::vector'
s_std_vector == <<"s","t","d",":",":","v","e","c","t","o","r">>

\* '_out'
s_out_suffix == <<"_","o","u","t">>

\* ') -> '
s_arrow == <<")"," ","-",">"," ">>

\* 'AtenXlaType::'
s_AtenXlaType == <<"A","t","e","n","X","l","a","T","y","p","e",":",":">>

\* 'AtenXlaTypeDefault::'
s_AtenXlaTypeDefault == <<"A","t","e","n","X","l","a","T","y","p","e","D","e",
  "f","a","u","l","t",":",":">>

\* 'cudnn'
s_cudnn == <<"c","u","d","n","n">>

\* ------------------------------------------------------------ tree queries

RECURSIVE first_match(_)
first_match(t) == IF IsToken(t) THEN t.column - 1 ELSE first_match(t.children[1])

RECURSIVE last_match(_)
\* t.children[-1] of a node without children has no value, as in the script.
last_match(t) ==
  IF IsToken(t) THEN t.end_column - 1 ELSE last_match(t.children[Len(t.children)])

RECURSIVE Tokens(_)
RECURSIVE TokensOfAll(_)
\* The tokens for_every_token visits, in its order.
Tokens(t) == IF IsToken(t) THEN <<t>> ELSE TokensOfAll(t.children)

TokensOfAll(ts) == IF ts = <<>> THEN <<>> ELSE Tokens(Head(ts)) \o TokensOfAll(Tail(ts))

\* typed_child(t, n, ttype), n counted from 0; the asserts are on the caller.
typed_child(t, n) == t.children[n + 1]

IsTreeOf(t, data) == ~IsToken(t) /\ t.data = data

\* The core_type child of a type tree.
CoreTypeOf(t) ==
  LET i == CHOOSE n \in 1..Len(t.children) : IsTreeOf(t.children[n], "core_type")
  IN  t.children[i]

type_core(t) ==
  LET c == CoreTypeOf(t).children[1]
  IN  IF IsToken(c) THEN c.value ELSE c.children[1].value

type_is_const(t) == IsToken(t.children[1]) /\ t.children[1].value = s_const

type_is_refptr(t, kind) ==
  LET c == t.children[Len(t.children)]
  IN  IsTreeOf(c, "refspec") /\ IsToken(c.children[1]) /\ c.children[1].value = kind

RECURSIVE extract_list(_)
\* The elements of a params or typelist node of the reduced tree.
extract_list(t) ==
  <<t.children[1]>> \o
    (IF Len(t.children) = 2 /\ IsTreeOf(t.children[2], t.data)
     THEN extract_list(t.children[2]) ELSE <<>>)

get_template_type_list(t) == extract_list(CoreTypeOf(t).children[1].children[2])

get_function_name(t) == t.children[2].children[1].value

get_parameters(t) == extract_list(t.children[3])

param_name(p) == p.children[2].children[1].value

param_type(p) == p.children[1]

\* ------------------------------------------------------------ span emitter
\* A StringEmit over the source text sref: the text emitted so far and the
\* 0-based position in sref up to which the source was replayed, -1 while
\* no source position is tracked.

StringEmit == [sval |-> <<>>, pos |-> -1]

\* advance() that appends the token and not the text between the last
\* position and the token.
advance_NoGap(emit, sref, t) ==
  [sval |-> emit.sval \o t.value, pos |-> t.end_column - 1]

advance(emit, sref, t) ==
  LET start == t.column - 1
      end == t.end_column - 1
      pos == IF emit.pos >= 0 THEN emit.pos ELSE start
  IN  [sval |-> emit.sval \o (IF start > pos THEN Slice(sref, pos, start) ELSE <<>>)
                          \o t.value,
       pos |-> end]

skip(emit, t) == [emit EXCEPT !.pos = IF emit.pos >= 0 THEN last_match(t) ELSE -1]

append(emit, s) == [sval |-> emit.sval \o s, pos |-> -1]

\* An emitter's position is never below -1. Testing it makes TLC compute
\* the emitter before it goes on, instead of nesting unevaluated emitters.
Tracked(emit) == emit.pos >= -1

RECURSIVE AdvanceAll(_, _, _)
AdvanceAll(emit, sref, toks) ==
  IF toks = <<>> \/ ~Tracked(emit) THEN emit
  ELSE AdvanceAll(advance(emit, sref, Head(toks)), sref, Tail(toks))

\* The decision functions the script passes to emit_string, by name:
\*   "keep"     lambda x: 0 (rewrite_sig's default, get_function_signature)
\*   "rewrite"  rewrite_signature's emit_fn
\*   "stdfunc"  create_stdfunc_sig's emit_fn
\*   "map"      create_map_sig's emit_fn
emit_fn(mode, t) ==
  CASE mode = "keep" -> 0
    [] mode = "rewrite" ->
         IF IsToken(t) THEN 0 ELSE IF t.data = "param_defval" THEN -1 ELSE 0
    [] mode = "stdfunc" ->
         IF IsToken(t) THEN 0 ELSE IF t.data = "param_name" THEN -1 ELSE 0
    [] mode = "map" ->
         IF IsToken(t)
         THEN IF t.type \in {"CONST", "REF", "PTR"} THEN -1 ELSE 0
         ELSE IF t.data \in {"param_name", "param_defval"} THEN -1 ELSE 0

RECURSIVE emit_string(_, _, _, _)
RECURSIVE EmitChildren(_, _, _, _)
emit_string(t, emit, sref, mode) ==
  LET status == emit_fn(mode, t)
  IN  IF status > 0 THEN AdvanceAll(emit, sref, Tokens(t))
      ELSE IF status = 0
        THEN IF IsToken(t) THEN advance(emit, sref, t)
             ELSE EmitChildren(t.children, emit, sref, mode)
      ELSE skip(emit, t)

\* for c in t.children: emit_string(c, emit, emit_fn)
EmitChildren(cs, emit, sref, mode) ==
  IF cs = <<>> \/ ~Tracked(emit) THEN emit
  ELSE EmitChildren(Tail(cs), emit_string(Head(cs), emit, sref, mode), sref, mode)

\* rewrite_sig(tree, orig_sig) with the default decision function.
rewrite_sig(tree, orig_sig) == emit_string(tree, StringEmit, orig_sig, "keep").sval

\* ----------------------------------------------------- signature projections

\* _TYPE_NSMAP
TYPE_NSMAP ==
  [n \in {s_Tensor, s_TensorList, s_Scalar, s_Storage, s_IntList, s_IntArrayRef,
          s_ArrayRef, s_Generator, s_Layout, s_ScalarType, s_TensorOptions,
          s_SparseTensorRef, s_MemoryFormat, s_QScheme, s_ConstQuantizerPtr,
          s_Dimname, s_DimnameList, s_Device, s_optional} |->
     IF n \in {s_Device, s_optional} THEN s_c10 \o n ELSE s_at \o n]

RECURSIVE RewriteTypes(_, _)
\* for_every_token(xtree, rewrite): a TNAME found in tmap takes the mapped
\* value and keeps its columns.
RewriteTypes(t, tmap) ==
  IF IsToken(t)
  THEN IF t.type = "TNAME" /\ t.value \in DOMAIN tmap
       THEN [t EXCEPT !.value = tmap[t.value]] ELSE t
  ELSE Tree(t.data, [n \in 1..Len(t.children) |-> RewriteTypes(t.children[n], tmap)])

\* rewrite_signature() that emits the default values too.
rewrite_signature_KeepDefaults(sig, tmap) ==
  emit_string(RewriteTypes(XPARSER(sig).tree, tmap), StringEmit, sig, "keep").sval

\* rewrite_signature(sig, tmap), for a sig that parses.
rewrite_signature(sig, tmap) ==
  emit_string(RewriteTypes(XPARSER(sig).tree, tmap), StringEmit, sig, "rewrite").sval

create_stdfunc_sig(tree, orig_sig) ==
  LET e1 == emit_string(typed_child(tree, 0), StringEmit, orig_sig, "stdfunc")
      e2 == append(e1, <<"(">>)
      e3 == emit_string(typed_child(tree, 3), e2, orig_sig, "stdfunc")
  IN  append(e3, <<")">>).sval

create_map_sig(tree, orig_sig) ==
  LET e1 == emit_string(typed_child(tree, 1), StringEmit, orig_sig, "map")
      e2 == append(e1, <<"(">>)
      e3 == emit_string(typed_child(tree, 3), e2, orig_sig, "map")
      e4 == append(e3, s_arrow)
  IN  emit_string(typed_child(tree, 0), e4, orig_sig, "map").sval

\* get_function_signature(t, orig_sig, gen_fnname): the signature text, the
\* function's name and its name in AtenXlaTypeDefault.
get_function_signature(t, orig_sig) ==
  LET e1 == emit_string(typed_child(t, 0), StringEmit, orig_sig, "keep")
      fnname == typed_child(t, 1).children[1].value
      xfname == s_AtenXlaTypeDefault \o fnname
      e2 == append(e1, <<" ">> \o xfname \o <<"(">>)
      e3 == emit_string(typed_child(t, 3), e2, orig_sig, "keep")
  IN  [sig |-> append(e3, <<")">>).sval, fname |-> fnname, xfname |-> xfname]

\* get_return_type_str(t, orig_sig): orig_sig[0:token.column - 2]
get_return_type_str(t, orig_sig) ==
  Slice(orig_sig, 0, t.children[2].children[1].column - 2)

\* get_mapsig_key() that leaves the text as it is.
get_mapsig_key_Verbatim(mapsig) == mapsig

\* get_mapsig_key(mapsig)
get_mapsig_key(mapsig) == Replace(mapsig, <<" ">>, <<>>)

\* is_tensor_api(fndef): whether the text names Tensor, and the text with
\* the namespaces taken off.
is_tensor_api(fndef) ==
  LET f1 == Replace(fndef, s_at, <<>>)
      f2 == Replace(f1, s_c10_Device, s_Device)
  IN  [is_tensor |-> HasWord(f2, s_Tensor), fndef |-> f2]

\* ------------------------------------------------- signatures under edit
\* The projections of one signature text, and of the texts obtained from
\* it by edits that keep it a signature: whitespace between tokens,
\* qualifiers, reference markers, parameter names, defaults, type names.

\* 'Tensor f(const Tensor & a, int b=1)'
SigPlain == <<"T","e","n","s","o","r"," ","f","(","c","o","n","s","t"," ",
  "T","e","n","s","o","r"," ","&"," ","a",","," ","i","n","t"," ","b","=",
  "1",")">>

\* 'std::tuple<Tensor,Tensor> g(Tensor * a)'
SigTuple == <<"s","t","d",":",":","t","u","p","l","e","<","T","e","n","s",
  "o","r",",","T","e","n","s","o","r",">"," ","g","(","T","e","n","s","o",
  "r"," ","*"," ","a",")">>

BaseSignatures == {SigPlain, SigTuple}

s_int == <<"i","n","t">>

s_at_Tensor == <<"a","t",":",":","T","e","n","s","o","r">>

s_x == <<"x">>

s_lit_1 == <<"1">>

s_lit_true == <<"t","r","u","e">>

s_eq == <<"=">>

\* The type names an edit may put in the place of another.
EditTypeNames == {s_Scalar, s_at_Tensor}

\* The parameter names an edit may give.
EditParamNames == {s_x}

\* The default values an edit may give.
EditDefaults == {s_lit_1, s_lit_true}

\* s[0:a] + new + s[b:]
Splice(s, a, b, new) == SubSeq(s, 1, a) \o new \o SubSeq(s, b + 1, Len(s))

RECURSIVE Nodes(_, _)
RECURSIVE NodesOfAll(_, _)
\* The subtrees of t of the given kind, in the order of the text.
Nodes(t, data) ==
  IF IsToken(t) THEN <<>>
  ELSE (IF t.data = data THEN <<t>> ELSE <<>>) \o NodesOfAll(t.children, data)

NodesOfAll(ts, data) ==
  IF ts = <<>> THEN <<>> ELSE Nodes(Head(ts), data) \o NodesOfAll(Tail(ts), data)

Range(f) == {f[i] : i \in DOMAIN f}

\* No whitespace of the text is other than the space character.
SpacesOnly(s) == \A i \in 1..Len(s) : s[i] \in WSChars => s[i] = " "

\* Taking character p out of s joins no two tokens.
Removable(s, p) ==
  /\ s[p] \in WSChars
  /\ ~(p > 1 /\ p < Len(s) /\ s[p - 1] \in TNameChars /\ s[p + 1] \in TNameChars)

\* The texts one edit of each kind makes of the signature s.
WhitespaceEdits(s, c) ==
  LET x == XPARSER(s).tree
      bounds == {t.column - 1 : t \in Range(Tokens(x))} \cup {Len(s)}
  IN  {Splice(s, p, p, <<c>>) : p \in bounds}
      \cup {Splice(s, p - 1, p, <<>>) : p \in {q \in 1..Len(s) : s[q] = c /\ Removable(s, q)}}

ConstEdits(s) ==
  {IF type_is_const(ty)
   THEN Splice(s, first_match(ty), first_match(CoreTypeOf(ty)), <<>>)
   ELSE Splice(s, first_match(ty), first_match(ty), s_const \o <<" ">>)
     : ty \in Range(Nodes(XPARSER(s).tree, "type"))}

RefEdits(s) ==
  UNION {IF IsTreeOf(ty.children[Len(ty.children)], "refspec")
         THEN {Splice(s, last_match(ty) - 1, last_match(ty), <<" ">>)}
         ELSE {Splice(s, last_match(ty), last_match(ty), <<"&">>)}
           : ty \in Range(Nodes(XPARSER(s).tree, "type"))}

NameEdits(s) ==
  {Splice(s, first_match(pn), last_match(pn), n)
     : pn \in Range(Nodes(XPARSER(s).tree, "param_name")), n \in EditParamNames}

DefvalEdits(s) ==
  UNION {IF Len(p.children) = 3
         THEN {Splice(s, first_match(p.children[3]), last_match(p.children[3]), <<>>)}
              \cup {Splice(s, first_match(p.children[3].children[2]),
                           last_match(p.children[3]), v) : v \in EditDefaults}
         ELSE {Splice(s, last_match(p), last_match(p), s_eq \o v) : v \in EditDefaults}
           : p \in Range(Nodes(XPARSER(s).tree, "param"))}

TypeEdits(s) ==
  {Splice(s, t.column - 1, t.end_column - 1, n)
     : t \in {u \in Range(Tokens(XPARSER(s).tree)) : u.type = "TNAME"},
       n \in EditTypeNames}

EditsOf(s, kind) ==
  CASE kind = "space" -> WhitespaceEdits(s, " ")
    [] kind = "tab" -> WhitespaceEdits(s, "\t")
    [] kind = "const" -> ConstEdits(s)
    [] kind = "ref" -> RefEdits(s)
    [] kind = "name" -> NameEdits(s)
    [] kind = "defval" -> DefvalEdits(s)
    [] kind = "type" -> TypeEdits(s)

EditKinds == {"space", "tab", "const", "ref", "name", "defval", "type"}

\* The key under which generate_registrations looks a declaration up:
\* get_xla_wrapper's mapsig, stripped.
DeclarationKey(cpp_sig) ==
  get_mapsig_key(create_map_sig(XPARSER(cpp_sig).tree, cpp_sig))

\* The key parse_local_overrides files one declaration of the override
\* source under; accepted is FALSE for a text it discards or cannot parse.
OverrideKey(text) ==
  LET api == is_tensor_api(text)
      x == XPARSER(api.fndef)
  IN  IF api.is_tensor /\ x.ok
      THEN [accepted |-> TRUE, fndef |-> api.fndef,
            key |-> get_mapsig_key(create_map_sig(x.tree, api.fndef))]
      ELSE [accepted |-> FALSE, fndef |-> api.fndef, key |-> <<>>]

\* --------------------------------------------------- generated code text

\* ' {\n'
s_brace_open == <<" ","{","\n">>

\* '  XLA_FN_TRACK(3);\n'
s_XLA_FN_TRACK == <<" "," ","X","L","A","_","F","N","_","T","R","A","C","K",
  "(","3",")",";","\n">>

\* '  XLA_COUNTER("'
s_XLA_COUNTER == <<" "," ","X","L","A","_","C","O","U","N","T","E","R","(",
  "\"">>

\* '::'
s_colons == <<":",":">>

\* '", 1);\n'
s_counter_end == <<"\"",","," ","1",")",";","\n">>

\* '  TF_VLOG(3) << "XLA '
s_TF_VLOG == <<" "," ","T","F","_","V","L","O","G","(","3",")"," ","<","<",
  " ","\"","X","L","A"," ">>

\* ' :"'
s_vlog_colon == <<" ",":","\"">>

\* ' << " '
s_vlog_name == <<" ","<","<"," ","\""," ">>

\* '=" << '
s_vlog_eq == <<"=","\""," ","<","<"," ">>

\* '.toString()'
s_toString == <<".","t","o","S","t","r","i","n","g","(",")">>

\* ';\n'
s_stmt_end == <<";","\n">>

\* '  auto '
s_auto == <<" "," ","a","u","t","o"," ">>

\* ' = '
s_assign == <<" ","="," ">>

\* '_tmp'
s_tmp_suffix == <<"_","t","m","p">>

\* '  bridge::XlaUpdateTensors({'
s_XlaUpdateTensors == <<" "," ","b","r","i","d","g","e",":",":","X","l","a",
  "U","p","d","a","t","e","T","e","n","s","o","r","s","(","{">>

\* '}, {'
s_update_sep == <<"}",","," ","{">>

\* '}, {0});\n'
s_update_end == <<"}",","," ","{","0","}",")",";","\n">>

\* 'std::get<'
s_std_get == <<"s","t","d",":",":","g","e","t","<">>

\* '>('
s_get_of == <<">","(">>

\* '  return '
s_return == <<" "," ","r","e","t","u","r","n"," ">>

\* ', '
s_comma_space == <<","," ">>

\* ');\n'
s_call_end == <<")",";","\n">>

\* '}'
s_brace_close == <<"}">>

\* None of python, for the options and values the model gives as texts
\* or lists.
None == <<>>

\* FuncOpts(): every option None.
FuncOpts ==
  [ref_param |-> None, device_param |-> None, wparams |-> None,
   outfn_template |-> None, outfn_name |-> None, shape_check_indices |-> None]

\* num_outputs = None: the return type is no tuple.
NoOutputs == -1

\* What a function that may raise gives: its text, or that it raised.
Code(text) == [raised |-> FALSE, code |-> text]

Raised == [raised |-> TRUE, code |-> <<>>]

DigitChars == <<"0", "1", "2", "3", "4", "5", "6", "7", "8", "9">>

RECURSIVE Str(_)
\* str(n), '{}'.format(n) of a natural number
Str(n) == IF n < 10 THEN <<DigitChars[n + 1]>> ELSE Str(n \div 10) \o <<DigitChars[(n % 10) + 1]>>

EndsWith(s, suffix) ==
  Len(s) >= Len(suffix) /\ SubSeq(s, Len(s) - Len(suffix) + 1, Len(s)) = suffix

get_param_names(params) == [i \in 1..Len(params) |-> param_name(params[i])]

IdChars == Lower \cup Digit \cup {"_"}

RECURSIVE IdEnd(_, _)
\* The end of the run of identifier characters of tmpl that starts at i.
IdEnd(tmpl, i) ==
  IF i <= Len(tmpl) /\ tmpl[i] \in IdChars THEN IdEnd(tmpl, i + 1) ELSE i

RECURSIVE ExpandFrom(_, _, _)
\* ArgTemplate.substitute from position i on: $n is the n-th name; a
\* placeholder that names no parameter raises.
ExpandFrom(tmpl, param_vars, i) ==
  IF i > Len(tmpl) THEN Code(<<>>)
  ELSE IF tmpl[i] = "$" /\ IdEnd(tmpl, i + 1) > i + 1
    THEN LET id == SubSeq(tmpl, i + 1, IdEnd(tmpl, i + 1) - 1)
             ks == {k \in 1..Len(param_vars) : Str(k - 1) = id}
             rest == ExpandFrom(tmpl, param_vars, IdEnd(tmpl, i + 1))
         IN  IF ks = {} \/ rest.raised THEN Raised
             ELSE Code(param_vars[CHOOSE k \in ks : TRUE] \o rest.code)
    ELSE LET rest == ExpandFrom(tmpl, param_vars, i + 1)
         IN  IF rest.raised THEN Raised ELSE Code(<<tmpl[i]>> \o rest.code)

expand_fn_template(tmpl, param_vars) == ExpandFrom(tmpl, param_vars, 1)

create_call(fname, param_vars) ==
  fname \o <<"(">> \o Join(s_comma_space, param_vars) \o <<")">>

RECURSIVE VlogTensors(_)
\* The ' << " p=" << p.toString()' of every Tensor parameter.
VlogTensors(params) ==
  IF params = <<>> THEN <<>>
  ELSE (IF type_core(param_type(Head(params))) = s_Tensor
        THEN Cat(<<s_vlog_name, param_name(Head(params)), s_vlog_eq,
                   param_name(Head(params)), s_toString>>)
        ELSE <<>>)
       \o VlogTensors(Tail(params))

generate_entry_debug_code(t, fname, params, fname_ns) ==
  Cat(<<s_XLA_FN_TRACK,
        IF fname_ns # None
          THEN Cat(<<s_XLA_COUNTER, fname_ns, s_colons, fname, s_counter_end>>)
          ELSE <<>>,
        s_TF_VLOG, fname, s_vlog_colon, VlogTensors(params), s_stmt_end>>)

generate_exit_debug_code(t, fname, rname, params, param_vars) == <<>>

generate_outfn_result_copy(dest, src) ==
  Cat(<<s_XlaUpdateTensors, dest, s_update_sep, src, s_update_end>>)

\* The loop of the write-backs that ends after the first.
OutCopies_FirstOnly(param_vars, tmp_result, i) ==
  generate_outfn_result_copy(
    param_vars[1], Cat(<<s_std_get, Str(0), s_get_of, tmp_result, <<")">> >>))

RECURSIVE OutCopies(_, _, _)
\* for i in range(0, num_outputs): the copy of element i into param_vars[i],
\* from index i on.
OutCopies(param_vars, tmp_result, i) ==
  IF i > Len(param_vars) THEN <<>>
  ELSE generate_outfn_result_copy(
         param_vars[i], Cat(<<s_std_get, Str(i - 1), s_get_of, tmp_result, <<")">> >>))
       \o OutCopies(param_vars, tmp_result, i + 1)

\* The body after the signature and the entry code, given the call.
OutBody(tree, rwxtree, fname, rwsig, params, param_vars, num_outputs, fcall) ==
  IF fcall.raised THEN Raised
  ELSE IF num_outputs = NoOutputs
    THEN IF param_vars = <<>> THEN Raised
         ELSE Code(Cat(<<s_auto, fname, s_tmp_suffix, s_assign, fcall.code, s_stmt_end,
                         generate_outfn_result_copy(param_vars[1], fname \o s_tmp_suffix),
                         generate_exit_debug_code(tree, fname, param_vars[1], params,
                                                  param_vars),
                         s_return, param_vars[1], s_stmt_end, s_brace_close>>))
  ELSE IF num_outputs > Len(param_vars) THEN Raised
  ELSE Code(Cat(<<s_auto, fname, s_tmp_suffix, s_assign, fcall.code, s_stmt_end,
                  OutCopies(SubSeq(param_vars, 1, num_outputs), fname \o s_tmp_suffix, 1),
                  generate_exit_debug_code(tree, fname, SubSeq(param_vars, 1, num_outputs),
                                           params, param_vars),
                  s_return, get_return_type_str(rwxtree, rwsig), <<"(">>,
                  Join(s_comma_space, SubSeq(param_vars, 1, num_outputs)),
                  s_call_end, s_brace_close>>))

\* The call of the function the out-variant is written over.
\* The call that passes the parameters after the first output on.
OutCall_AfterFirst(fname, param_vars, num_outputs, fnopts) ==
  IF ~EndsWith(fname, s_out_suffix) THEN Raised
  ELSE Code(create_call(s_AtenXlaType \o SubSeq(fname, 1, Len(fname) - Len(s_out_suffix)),
                        SubSeq(param_vars, 2, Len(param_vars))))

OutCall(fname, param_vars, num_outputs, fnopts) ==
  IF fnopts.outfn_template # None
    THEN expand_fn_template(fnopts.outfn_template, param_vars)
  ELSE IF ~EndsWith(fname, s_out_suffix) THEN Raised
  ELSE Code(create_call(s_AtenXlaType \o SubSeq(fname, 1, Len(fname) - Len(s_out_suffix)),
                        SubSeq(param_vars,
                               (IF num_outputs # NoOutputs THEN num_outputs ELSE 1) + 1,
                               Len(param_vars))))

OutWith(tree, rwxtree, fname, sig, rwsig, params, fnopts, num_outputs) ==
  LET body == OutBody(tree, rwxtree, fname, rwsig, params, get_param_names(params),
                      num_outputs,
                      OutCall(fname, get_param_names(params), num_outputs, fnopts))
  IN  IF body.raised THEN Raised
      ELSE Code(Cat(<<sig, s_brace_open,
                      generate_entry_debug_code(tree, fname, params, None),
                      body.code>>))

generate_aten_out(tree, rwxtree, fname, sig, rwsig, params, fnopts) ==
  IF type_core(tree.children[1]) # s_std_tuple
    THEN OutWith(tree, rwxtree, fname, sig, rwsig, params, fnopts, NoOutputs)
  ELSE IF IsToken(CoreTypeOf(tree.children[1]).children[1]) THEN Raised
  ELSE OutWith(tree, rwxtree, fname, sig, rwsig, params, fnopts,
               Len(get_template_type_list(tree.children[1])))

\* ------------------------------------------------- texts of the wrappers

\* 'bridge::CreateXlaTensor('
s_CreateXlaTensor == <<"b","r","i","d","g","e",":",":","C","r","e","a","t",
  "e","X","l","a","T","e","n","s","o","r","(">>

\* ', bridge::GetXlaDevice('
s_GetXlaDevice == <<","," ","b","r","i","d","g","e",":",":","G","e","t","X",
  "l","a","D","e","v","i","c","e","(">>

\* '))'
s_close2 == <<")",")">>

\* 'bridge::CreateXlaTensors('
s_CreateXlaTensors == <<"b","r","i","d","g","e",":",":","C","r","e","a","t",
  "e","X","l","a","T","e","n","s","o","r","s","(">>

\* 'auto&& '
s_auto_ref == <<"a","u","t","o","&","&"," ">>

\* 'x_result'
RESULT_NAME == <<"x","_","r","e","s","u","l","t">>

\* 'o_'
s_o_prefix == <<"o","_">>

\* '  at::TensorOptions '
s_at_TensorOptions == <<" "," ","a","t",":",":","T","e","n","s","o","r","O",
  "p","t","i","o","n","s"," ">>

\* 'xlatens'
s_xlatens == <<"x","l","a","t","e","n","s">>

\* '_tensors'
s_tensors_suffix == <<"_","t","e","n","s","o","r","s">>

\* '_opt'
s_opt_suffix == <<"_","o","p","t">>

\* '  std::vector<at::Tensor> '
s_vector_Tensor == <<" "," ","s","t","d",":",":","v","e","c","t","o","r",
  "<","a","t",":",":","T","e","n","s","o","r",">"," ">>

\* ' = {'
s_list_open == <<" ","="," ","{">>

\* '};\n'
s_list_close == <<"}",";","\n">>

\* ' = bridge::XlaCreateTensorList('
s_XlaCreateTensorList == <<" ","="," ","b","r","i","d","g","e",":",":","X",
  "l","a","C","r","e","a","t","e","T","e","n","s","o","r","L","i","s","t",
  "(">>

\* '  std::vector<c10::optional<at::Tensor>> '
s_vector_optional == <<" "," ","s","t","d",":",":","v","e","c","t","o","r",
  "<","c","1","0",":",":","o","p","t","i","o","n","a","l","<","a","t",":",
  ":","T","e","n","s","o","r",">",">"," ">>

\* ' = bridge::XlaCreateOptTensorList('
s_XlaCreateOptTensorList == <<" ","="," ","b","r","i","d","g","e",":",":",
  "X","l","a","C","r","e","a","t","e","O","p","t","T","e","n","s","o","r",
  "L","i","s","t","(">>

\* '_update_indices'
s_update_indices == <<"_","u","p","d","a","t","e","_","i","n","d","i","c",
  "e","s">>

\* '  std::vector<size_t> '
s_vector_size_t == <<" "," ","s","t","d",":",":","v","e","c","t","o","r",
  "<","s","i","z","e","_","t",">"," ">>

\* '  bridge::XlaUpdateTensors('
s_XlaUpdateTensorsCall == <<" "," ","b","r","i","d","g","e",":",":","X","l",
  "a","U","p","d","a","t","e","T","e","n","s","o","r","s","(">>

\* 'l_'
s_l_prefix == <<"l","_">>

\* 'dtype'
s_dtype == <<"d","t","y","p","e">>

\* 'layout'
s_layout == <<"l","a","y","o","u","t">>

\* 'device'
s_device == <<"d","e","v","i","c","e">>

\* 'pin_memory'
s_pin_memory == <<"p","i","n","_","m","e","m","o","r","y">>

\* 'options'
s_options == <<"o","p","t","i","o","n","s">>

\* '  at::TensorOptions options = at::TensorOptions().device(device).layout(layout).pinned_memory(pin_memory).dtype(dtype);\n'
s_options_stmt == <<" "," ","a","t",":",":","T","e","n","s","o","r","O","p",
  "t","i","o","n","s"," ","o","p","t","i","o","n","s"," ","="," ","a","t",
  ":",":","T","e","n","s","o","r","O","p","t","i","o","n","s","(",")",".",
  "d","e","v","i","c","e","(","d","e","v","i","c","e",")",".","l","a","y",
  "o","u","t","(","l","a","y","o","u","t",")",".","p","i","n","n","e","d",
  "_","m","e","m","o","r","y","(","p","i","n","_","m","e","m","o","r","y",
  ")",".","d","t","y","p","e","(","d","t","y","p","e",")",";","\n">>

\* '  static_cast<void>('
s_static_cast == <<" "," ","s","t","a","t","i","c","_","c","a","s","t","<",
  "v","o","i","d",">","(">>

\* '); // Avoid warnings in case not used\n'
s_avoid_warnings == <<")",";"," ","/","/"," ","A","v","o","i","d"," ","w",
  "a","r","n","i","n","g","s"," ","i","n"," ","c","a","s","e"," ","n","o",
  "t"," ","u","s","e","d","\n">>

\* 'aten'
s_aten == <<"a","t","e","n">>

\* '  '
s_indent == <<" "," ">>

\* '  XLA_CHECK('
s_XLA_CHECK == <<" "," ","X","L","A","_","C","H","E","C","K","(">>

\* '.sizes() == '
s_sizes_eq == <<".","s","i","z","e","s","(",")"," ","=","="," ">>

\* '.sizes()) << "Operand shapes must be identical for '
s_shapes_msg == <<".","s","i","z","e","s","(",")",")"," ","<","<"," ","\"",
  "O","p","e","r","a","n","d"," ","s","h","a","p","e","s"," ","m","u","s",
  "t"," ","b","e"," ","i","d","e","n","t","i","c","a","l"," ","f","o","r",
  " ">>

\* ', mismatch for arguments '
s_mismatch == <<","," ","m","i","s","m","a","t","c","h"," ","f","o","r"," ",
  "a","r","g","u","m","e","n","t","s"," ">>

\* ' and '
s_and == <<" ","a","n","d"," ">>

\* '";\n'
s_msg_end == <<"\"",";","\n">>

\* The keys of _FN_OUT: abs_out, add_out, acos_out, ...
FN_OUT_NAMES ==
  {<<"a","b","s","_","o","u","t">>,
   <<"a","d","d","_","o","u","t">>,
   <<"a","c","o","s","_","o","u","t">>,
   <<"a","c","o","s","h","_","o","u","t">>,
   <<"a","s","i","n","_","o","u","t">>,
   <<"a","s","i","n","h","_","o","u","t">>,
   <<"a","t","a","n","_","o","u","t">>,
   <<"a","t","a","n","2","_","o","u","t">>,
   <<"a","t","a","n","h","_","o","u","t">>,
   <<"b","a","d","d","b","m","m","_","o","u","t">>,
   <<"b","e","r","n","o","u","l","l","i","_","o","u","t">>,
   <<"b","i","n","a","r","y","_","c","r","o","s","s","_","e","n","t","r","o","p","y","_","o","u","t">>,
   <<"b","i","n","a","r","y","_","c","r","o","s","s","_","e","n","t","r","o","p","y","_","b","a","c","k","w","a","r","d","_","o","u","t">>,
   <<"c","l","a","m","p","_","o","u","t">>,
   <<"d","i","v","_","o","u","t">>,
   <<"g","a","t","h","e","r","_","o","u","t">>,
   <<"g","e","r","_","o","u","t">>,
   <<"h","a","r","d","s","i","g","m","o","i","d","_","o","u","t">>,
   <<"k","t","h","v","a","l","u","e","_","o","u","t">>,
   <<"i","n","d","e","x","_","s","e","l","e","c","t","_","o","u","t">>,
   <<"i","n","v","e","r","s","e","_","o","u","t">>,
   <<"l","o","g","_","o","u","t">>,
   <<"m","a","s","k","e","d","_","s","e","l","e","c","t","_","o","u","t">>,
   <<"m","a","x","i","m","u","m","_","o","u","t">>,
   <<"m","i","n","i","m","u","m","_","o","u","t">>,
   <<"p","o","w","_","o","u","t">>,
   <<"p","r","o","d","_","o","u","t">>,
   <<"n","o","n","z","e","r","o","_","o","u","t">>,
   <<"r","o","u","n","d","_","o","u","t">>,
   <<"n","o","r","m","a","l","_","o","u","t">>,
   <<"s","t","d","_","o","u","t">>,
   <<"t","a","k","e","_","o","u","t">>,
   <<"t","o","p","k","_","o","u","t">>,
   <<"v","a","r","_","o","u","t">>}

\* The keys of _CTOR_FUNCTIONS: empty, linspace, logspace, ...
CTOR_NAMES ==
  {<<"e","m","p","t","y">>,
   <<"l","i","n","s","p","a","c","e">>,
   <<"l","o","g","s","p","a","c","e">>,
   <<"r","a","n","d">>,
   <<"r","a","n","d","_","l","i","k","e">>,
   <<"r","a","n","d","n">>,
   <<"r","a","n","d","n","_","l","i","k","e">>,
   <<"r","a","n","d","i","n","t">>,
   <<"r","a","n","d","i","n","t","_","l","i","k","e">>,
   <<"r","a","n","d","p","e","r","m","_","o","u","t">>,
   <<"s","c","a","l","a","r","_","t","e","n","s","o","r">>}

\* '.device(at::DeviceType::CPU)'
s_device_cpu == <<".","d","e","v","i","c","e","(","a","t",":",":","D","e",
  "v","i","c","e","T","y","p","e",":",":","C","P","U",")">>

\* ---------------------------------------------------- the default wrapper

\* None where the script holds a tree.
NoneTree == [k |-> "none"]

IsNone(t) == t.k = "none"

\* get_optional(fnopts, name, defval); fnopts = None is modelled as
\* FuncOpts(), which answers every query of the script alike.
get_optional(fnopts, name, defval) ==
  IF fnopts[name] # None THEN fnopts[name] ELSE defval

is_write_param(fnopts, pname, defval) ==
  IF fnopts.wparams # None /\ \E i \in 1..Len(fnopts.wparams) : fnopts.wparams[i] = pname
    THEN TRUE ELSE defval

\* list_get(l, n), n counted from 0
list_get(l, n) == IF n < Len(l) THEN l[n + 1] ELSE NoneTree

\* The core child of a type is a template, as get_template_type_list asserts.
IsTemplateType(t) == ~IsToken(CoreTypeOf(t).children[1])

RECURSIVE Shape(_)
\* What lark's == compares of a tree: the kinds and values, no positions.
Shape(t) ==
  IF IsToken(t) THEN <<t.type, t.value>>
  ELSE <<t.data, [n \in 1..Len(t.children) |-> Shape(t.children[n])]>>

SameTree(a, b) == ~IsNone(a) /\ ~IsNone(b) /\ Shape(a) = Shape(b)

\* c10::optional that is no template: get_template_type_list raises.
UnwrapRaises(ptype) == type_core(ptype) = s_c10_optional /\ ~IsTemplateType(ptype)

\* The core type of a parameter, unwrapped of c10::optional<>.
UnwrappedCore(ptype) ==
  IF type_core(ptype) # s_c10_optional THEN type_core(ptype)
  ELSE type_core(get_template_type_list(ptype)[1])

\* What stands for a tree where the script raised instead.
RaisedTree == [k |-> "raised"]

RECURSIVE RefParamFrom(_, _, _, _)

\* The step of get_reference_param where a Tensor leaves the other
\* parameter found before it in place.
RefParamStep_KeepOther(p, rest, fnopts, ref_param, other, cptype, pname) ==
  IF get_optional(fnopts, "ref_param", None) = pname THEN p
  ELSE IF cptype # s_Tensor
    THEN RefParamFrom(rest, fnopts, ref_param,
                      IF IsNone(other) /\ cptype \in {s_TensorOptions, s_TensorList, s_Device}
                        THEN p ELSE other)
  ELSE RefParamFrom(rest, fnopts,
                    IF IsNone(ref_param) /\ (pname = s_self \/ type_is_const(param_type(p)))
                      THEN p ELSE ref_param,
                    IF IsNone(other) THEN p ELSE other)

RefParamStep(p, rest, fnopts, ref_param, other, cptype, pname) ==
  IF get_optional(fnopts, "ref_param", None) = pname THEN p
  ELSE IF cptype # s_Tensor
    THEN RefParamFrom(rest, fnopts, ref_param,
                      IF IsNone(other) /\ cptype \in {s_TensorOptions, s_TensorList, s_Device}
                        THEN p ELSE other)
  ELSE RefParamFrom(rest, fnopts,
                    IF IsNone(ref_param) /\ (pname = s_self \/ type_is_const(param_type(p)))
                      THEN p ELSE ref_param,
                    p)

\* The loop of get_reference_param from the parameters left, with the
\* ref_param and other found so far; RaisedTree where it raises.
RefParamFrom(params, fnopts, ref_param, other) ==
  IF params = <<>> THEN (IF ~IsNone(ref_param) THEN ref_param ELSE other)
  ELSE IF UnwrapRaises(param_type(Head(params))) THEN RaisedTree
  ELSE RefParamStep(Head(params), Tail(params), fnopts, ref_param, other,
                    UnwrappedCore(param_type(Head(params))), param_name(Head(params)))

get_reference_param(params, fnopts) == RefParamFrom(params, fnopts, NoneTree, NoneTree)

\* get_return_value() that returns the native result for a const or
\* reference type too.
get_return_value_Native(rtype, rname, param, var, ref_param, fnopts) ==
  IF type_is_const(rtype) \/ type_is_refptr(rtype, "&")
    THEN IF IsNone(param) THEN Raised ELSE Code(rname)
  ELSE IF type_core(rtype) # s_Tensor THEN Code(rname)
  ELSE IF IsNone(ref_param) THEN Raised
  ELSE Code(Cat(<<s_CreateXlaTensor, rname, s_GetXlaDevice,
                  get_optional(fnopts, "device_param", param_name(ref_param)),
                  s_close2>>))

get_return_value(rtype, rname, param, var, ref_param, fnopts) ==
  IF type_is_const(rtype) \/ type_is_refptr(rtype, "&")
    THEN IF IsNone(param) THEN Raised ELSE Code(param_name(param))
  ELSE IF type_core(rtype) # s_Tensor THEN Code(rname)
  ELSE IF IsNone(ref_param) THEN Raised
  ELSE Code(Cat(<<s_CreateXlaTensor, rname, s_GetXlaDevice,
                  get_optional(fnopts, "device_param", param_name(ref_param)),
                  s_close2>>))

RECURSIVE TupleValues(_, _, _, _, _, _, _)

TupleValuesRest(i, v, rest) ==
  IF v.raised \/ rest.raised THEN Raised
  ELSE Code((IF i > 0 THEN s_comma_space ELSE <<>>) \o v.code \o rest.code)

\* The loop of get_tuple_return from element i (counted from 0) on.
TupleValues(types, i, rname, params, param_vars, ref_param, fnopts) ==
  IF i >= Len(types) THEN Code(<<>>)
  ELSE TupleValuesRest(
         i,
         get_return_value(types[i + 1], Cat(<<s_std_get, Str(i), s_get_of, rname, <<")">> >>),
                          list_get(params, i), <<>>, ref_param, fnopts),
         TupleValues(types, i + 1, rname, params, param_vars, ref_param, fnopts))

TupleReturn(rtype_str, values) ==
  IF values.raised THEN Raised
  ELSE Code(Cat(<<rtype_str, <<"(">>, values.code, <<")">> >>))

get_tuple_return(rtype, rtype_str, rname, params, param_vars, ref_param, fnopts) ==
  IF ~IsTemplateType(rtype) THEN Raised
  ELSE TupleReturn(rtype_str,
                   TupleValues(get_template_type_list(rtype), 0, rname, params,
                               param_vars, ref_param, fnopts))

ReturnStmt(retstr) ==
  IF retstr.raised THEN Raised ELSE Code(Cat(<<s_return, retstr.code, s_stmt_end>>))

generate_return_stmt(t, rtype_str, fname, rname, params, param_vars, ref_param, fnopts) ==
  IF type_core(t.children[1]) = s_std_tuple
    THEN ReturnStmt(get_tuple_return(t.children[1], rtype_str, rname, params, param_vars,
                                     ref_param, fnopts))
  ELSE IF type_core(t.children[1]) = s_std_vector
    THEN IF IsNone(ref_param) THEN Raised
         ELSE ReturnStmt(Code(Cat(<<s_CreateXlaTensors, rname, s_GetXlaDevice,
                                    get_optional(fnopts, "device_param",
                                                 param_name(ref_param)),
                                    s_close2>>)))
  ELSE IF type_core(t.children[1]) = s_Tensor
    THEN ReturnStmt(get_return_value(t.children[1], rname, params[1], param_vars[1],
                                     ref_param, fnopts))
  ELSE IF type_core(t.children[1]) = s_void /\ ~type_is_refptr(t.children[1], "*")
    THEN Code(<<>>)
  ELSE ReturnStmt(Code(rname))

generate_result_assignment(t, rname) ==
  IF type_core(t.children[1]) = s_void /\ ~type_is_refptr(t.children[1], "*")
    THEN <<>>
    ELSE Cat(<<s_auto_ref, rname, s_assign>>)

\* Context.get_function(name) over the text of the functions header; None
\* when the header has no ' name('.
get_function(functions_data, name) ==
  IF Contains(functions_data, Cat(<<<<" ">>, name, <<"(">> >>))
    THEN s_at \o name ELSE None

\* list.remove(x), for an x of the list
RemoveFirst(l, x) ==
  LET i == CHOOSE n \in 1..Len(l) : l[n] = x /\ \A m \in 1..(n - 1) : l[m] # x
  IN  SubSeq(l, 1, i - 1) \o SubSeq(l, i + 1, Len(l))

\* _XLA_FUNCTIONS is empty.
get_handling_function(ctx, fname, xla_ref_param, param_vars) ==
  IF get_function(ctx, fname) # None
    THEN Code(create_call(get_function(ctx, fname), param_vars))
  ELSE IF \A n \in 1..Len(param_vars) : param_vars[n] # xla_ref_param THEN Raised
  ELSE Code(Cat(<<xla_ref_param, <<".">>, fname, <<"(">>,
                  Join(s_comma_space, RemoveFirst(param_vars, xla_ref_param)),
                  <<")">> >>))

\* rewrite_tensor_options(fname, pname): the code and the name to pass on.
rewrite_tensor_options(fname, pname) ==
  IF fname \notin CTOR_NAMES THEN [code |-> <<>>, xname |-> pname]
  ELSE [code |-> Cat(<<s_at_TensorOptions, s_o_prefix, pname, s_assign, pname,
                       s_device_cpu, s_stmt_end>>),
        xname |-> s_o_prefix \o pname]

\* TensorFetcher(var_name)
TensorFetcher(var_name) ==
  [var_name |-> var_name,
   tvar_name |-> var_name \o s_tensors_suffix,
   optvar_name |-> var_name \o s_opt_suffix,
   toptvar_name |-> var_name \o s_opt_suffix \o s_tensors_suffix,
   tensors |-> <<>>, opt_tensors |-> <<>>, writeable |-> <<>>]

\* TensorFetcher.add that takes the index of a writable tensor after it
\* appended the tensor.
add_IndexAfter(tf, name, writeable) ==
  [tf EXCEPT !.tensors = Append(@, name),
             !.writeable = IF writeable THEN Append(@, Len(tf.tensors) + 1) ELSE @]

\* TensorFetcher.add: the fetcher after it; AddName is what it returns.
add(tf, name, writeable) ==
  [tf EXCEPT !.tensors = Append(@, name),
             !.writeable = IF writeable THEN Append(@, Len(tf.tensors)) ELSE @]

AddName(tf) == Cat(<<tf.var_name, <<"[">>, Str(Len(tf.tensors) - 1), <<"]">> >>)

\* TensorFetcher.add_opt: the fetcher after it; AddOptName is what it returns.
add_opt(tf, name) == [tf EXCEPT !.opt_tensors = Append(@, name)]

AddOptName(tf) == Cat(<<tf.optvar_name, <<"[">>, Str(Len(tf.opt_tensors) - 1), <<"]">> >>)

generate_fetches(tf) ==
  Cat(<<s_vector_Tensor, tf.tvar_name, s_list_open, Join(s_comma_space, tf.tensors),
        s_list_close,
        s_auto, tf.var_name, s_XlaCreateTensorList, tf.tvar_name, s_call_end,
        IF tf.opt_tensors # <<>>
          THEN Cat(<<s_vector_optional, tf.toptvar_name, s_list_open,
                     Join(s_comma_space, tf.opt_tensors), s_list_close,
                     s_auto, tf.optvar_name, s_XlaCreateOptTensorList, tf.toptvar_name,
                     s_call_end>>)
          ELSE <<>> >>)

generate_updates(tf) ==
  IF tf.writeable = <<>> THEN <<>>
  ELSE Cat(<<s_vector_size_t, tf.var_name, s_update_indices, s_list_open,
             Join(s_comma_space, [n \in 1..Len(tf.writeable) |-> Str(tf.writeable[n])]),
             s_list_close,
             s_XlaUpdateTensorsCall, tf.tvar_name, s_comma_space, tf.var_name,
             s_comma_space, tf.var_name, s_update_indices, s_call_end>>)

\* Which branch of the parameter loop of generate_aten_to_xla p takes.
ParamKind(p) ==
  IF type_core(param_type(p)) = s_TensorList THEN "TensorList"
  ELSE IF type_core(param_type(p)) = s_TensorOptions THEN "TensorOptions"
  ELSE IF type_core(param_type(p)) = s_c10_optional
    THEN IF type_core(get_template_type_list(param_type(p))[1]) = s_Tensor
           THEN "optional Tensor" ELSE "other"
  ELSE IF type_core(param_type(p)) # s_Tensor THEN "other"
  ELSE IF type_is_const(param_type(p)) THEN "const Tensor"
  ELSE "Tensor"

\* The fetcher after the parameter.
ParamFetcher(kind, pname, tf, fnopts) ==
  IF kind = "optional Tensor" THEN add_opt(tf, pname)
  ELSE IF kind = "const Tensor" THEN add(tf, pname, is_write_param(fnopts, pname, FALSE))
  ELSE IF kind = "Tensor" THEN add(tf, pname, is_write_param(fnopts, pname, TRUE))
  ELSE tf

\* The name the parameter is passed on under, tf being the fetcher after it.
ParamVar(kind, pname, tf, fname) ==
  IF kind = "TensorList" THEN s_l_prefix \o pname
  ELSE IF kind = "TensorOptions" THEN rewrite_tensor_options(fname, pname).xname
  ELSE IF kind = "optional Tensor" THEN AddOptName(tf)
  ELSE IF kind \in {"const Tensor", "Tensor"} THEN AddName(tf)
  ELSE pname

\* The code the parameter adds.
ParamCode(kind, pname, fname) ==
  IF kind = "TensorList"
    THEN Cat(<<s_auto, s_l_prefix, pname, s_XlaCreateTensorList, pname, s_call_end>>)
  ELSE IF kind = "TensorOptions" THEN rewrite_tensor_options(fname, pname).code
  ELSE <<>>

RECURSIVE ParamLoop(_, _, _, _, _)

ParamLoopStep(p, rest, acc, fname, fnopts, ref_param, kind, tf) ==
  ParamLoop(rest,
            [code |-> acc.code \o ParamCode(kind, param_name(p), fname),
             param_vars |-> Append(acc.param_vars, ParamVar(kind, param_name(p), tf, fname)),
             tf |-> tf,
             xla_ref_param |->
               IF SameTree(p, ref_param) /\ get_optional(fnopts, "ref_param", None) = None
                 THEN ParamVar(kind, param_name(p), tf, fname)
                 ELSE acc.xla_ref_param],
            fname, fnopts, ref_param)

\* for p in params, from the parameters left: the code, the names, the
\* fetcher and xla_ref_param after the loop.
ParamLoop(params, acc, fname, fnopts, ref_param) ==
  IF params = <<>> \/ Len(acc.code) < 0 THEN acc
  ELSE ParamLoopStep(Head(params), Tail(params), acc, fname, fnopts, ref_param,
                     ParamKind(Head(params)),
                     ParamFetcher(ParamKind(Head(params)), param_name(Head(params)),
                                  acc.tf, fnopts))

\* set(target_options).issubset(set(param_vars))
HasTargetOptions(param_vars) ==
  \A o \in {s_dtype, s_layout, s_device, s_pin_memory} :
    \E n \in 1..Len(param_vars) : param_vars[n] = o

\* The code up to and with the call of the handling function.
CallStmt(code, result_assign, call, param_vars) ==
  IF call.raised THEN Raised
  ELSE IF HasTargetOptions(param_vars)
    THEN Code(Replace(Cat(<<code, s_options_stmt, s_indent, result_assign, call.code,
                            s_stmt_end>>),
                      Join(s_comma_space, <<s_dtype, s_layout, s_device, s_pin_memory>>),
                      s_options))
    ELSE Code(Cat(<<code, s_indent, result_assign, call.code, s_stmt_end>>))

\* The code from the updates of the fetched tensors to the closing brace.
ToXlaEnd(called, tf, result_assign, tree, fname, params, param_vars, ret) ==
  IF called.raised \/ ret.raised THEN Raised
  ELSE Code(Cat(<<called.code, generate_updates(tf),
                  IF result_assign # <<>>
                    THEN Cat(<<s_static_cast, RESULT_NAME, s_avoid_warnings>>)
                    ELSE <<>>,
                  generate_exit_debug_code(tree, fname,
                                           IF result_assign # <<>> THEN RESULT_NAME ELSE None,
                                           params, param_vars),
                  ret.code, s_brace_close>>))

ToXlaAfterLoop(ctx, tree, rwxtree, fname, rwsig, params, fnopts, ref_param, acc, result_assign) ==
  ToXlaEnd(CallStmt(acc.code \o generate_fetches(acc.tf), result_assign,
                    get_handling_function(ctx, fname, acc.xla_ref_param, acc.param_vars),
                    acc.param_vars),
           acc.tf, result_assign, tree, fname, params, acc.param_vars,
           generate_return_stmt(tree, get_return_type_str(rwxtree, rwsig), fname,
                                IF result_assign # <<>> THEN RESULT_NAME ELSE None,
                                params, acc.param_vars, ref_param, fnopts))

ToXlaWith(ctx, tree, rwxtree, fname, sig, rwsig, params, fnopts, ref_param) ==
  IF ref_param = RaisedTree THEN Raised
  ELSE ToXlaAfterLoop(
         ctx, tree, rwxtree, fname, rwsig, params, fnopts, ref_param,
         ParamLoop(params,
                   [code |-> Cat(<<sig, s_brace_open,
                                   generate_entry_debug_code(tree, fname, params, s_aten)>>),
                    param_vars |-> <<>>,
                    tf |-> TensorFetcher(s_xlatens),
                    xla_ref_param |->
                      IF ~IsNone(ref_param) THEN param_name(ref_param) ELSE None],
                   fname, fnopts, ref_param),
         generate_result_assignment(tree, RESULT_NAME))

generate_aten_to_xla(ctx, tree, rwxtree, fname, sig, rwsig, params, fnopts) ==
  ToXlaWith(ctx, tree, rwxtree, fname, sig, rwsig, params, fnopts,
            get_reference_param(params, fnopts))

\* ------------------------------------------------------- policy tables

\* 'AtenXlaType::__and__'
s_AtenXlaType____and__ == <<"A","t","e","n","X","l","a","T","y","p","e",":",
  ":","_","_","a","n","d","_","_">>

\* 'AtenXlaType::__or__'
s_AtenXlaType____or__ == <<"A","t","e","n","X","l","a","T","y","p","e",":",
  ":","_","_","o","r","_","_">>

\* 'AtenXlaType::eq'
s_AtenXlaType__eq == <<"A","t","e","n","X","l","a","T","y","p","e",":",":",
  "e","q">>

\* 'AtenXlaType::ge'
s_AtenXlaType__ge == <<"A","t","e","n","X","l","a","T","y","p","e",":",":",
  "g","e">>

\* 'AtenXlaType::gt'
s_AtenXlaType__gt == <<"A","t","e","n","X","l","a","T","y","p","e",":",":",
  "g","t">>

\* 'AtenXlaType::le'
s_AtenXlaType__le == <<"A","t","e","n","X","l","a","T","y","p","e",":",":",
  "l","e">>

\* 'AtenXlaType::lt'
s_AtenXlaType__lt == <<"A","t","e","n","X","l","a","T","y","p","e",":",":",
  "l","t">>

\* 'AtenXlaType::ne'
s_AtenXlaType__ne == <<"A","t","e","n","X","l","a","T","y","p","e",":",":",
  "n","e">>

\* _FN_REMAP: the map signatures remapped, each with its FuncOpts
FN_REMAP_ENTRIES ==
  {<<<<"_","t","h","_","e","q","(","T","e","n","s","o","r",","," ","S","c","a","l","a","r",")"," ","-",">"," ","T","e","n","s","o","r">>,
     \* _th_eq(Tensor, Scalar) -> Tensor
     s_AtenXlaType__eq, None>>,
   <<<<"_","t","h","_","e","q","(","T","e","n","s","o","r",","," ","T","e","n","s","o","r",")"," ","-",">"," ","T","e","n","s","o","r">>,
     \* _th_eq(Tensor, Tensor) -> Tensor
     s_AtenXlaType__eq, None>>,
   <<<<"_","t","h","_","g","e","(","T","e","n","s","o","r",","," ","S","c","a","l","a","r",")"," ","-",">"," ","T","e","n","s","o","r">>,
     \* _th_ge(Tensor, Scalar) -> Tensor
     s_AtenXlaType__ge, None>>,
   <<<<"_","t","h","_","g","e","(","T","e","n","s","o","r",","," ","T","e","n","s","o","r",")"," ","-",">"," ","T","e","n","s","o","r">>,
     \* _th_ge(Tensor, Tensor) -> Tensor
     s_AtenXlaType__ge, None>>,
   <<<<"_","t","h","_","g","t","(","T","e","n","s","o","r",","," ","S","c","a","l","a","r",")"," ","-",">"," ","T","e","n","s","o","r">>,
     \* _th_gt(Tensor, Scalar) -> Tensor
     s_AtenXlaType__gt, None>>,
   <<<<"_","t","h","_","g","t","(","T","e","n","s","o","r",","," ","T","e","n","s","o","r",")"," ","-",">"," ","T","e","n","s","o","r">>,
     \* _th_gt(Tensor, Tensor) -> Tensor
     s_AtenXlaType__gt, None>>,
   <<<<"_","t","h","_","l","e","(","T","e","n","s","o","r",","," ","S","c","a","l","a","r",")"," ","-",">"," ","T","e","n","s","o","r">>,
     \* _th_le(Tensor, Scalar) -> Tensor
     s_AtenXlaType__le, None>>,
   <<<<"_","t","h","_","l","e","(","T","e","n","s","o","r",","," ","T","e","n","s","o","r",")"," ","-",">"," ","T","e","n","s","o","r">>,
     \* _th_le(Tensor, Tensor) -> Tensor
     s_AtenXlaType__le, None>>,
   <<<<"_","t","h","_","l","t","(","T","e","n","s","o","r",","," ","S","c","a","l","a","r",")"," ","-",">"," ","T","e","n","s","o","r">>,
     \* _th_lt(Tensor, Scalar) -> Tensor
     s_AtenXlaType__lt, None>>,
   <<<<"_","t","h","_","l","t","(","T","e","n","s","o","r",","," ","T","e","n","s","o","r",")"," ","-",">"," ","T","e","n","s","o","r">>,
     \* _th_lt(Tensor, Tensor) -> Tensor
     s_AtenXlaType__lt, None>>,
   <<<<"_","t","h","_","n","e","(","T","e","n","s","o","r",","," ","S","c","a","l","a","r",")"," ","-",">"," ","T","e","n","s","o","r">>,
     \* _th_ne(Tensor, Scalar) -> Tensor
     s_AtenXlaType__ne, None>>,
   <<<<"_","t","h","_","n","e","(","T","e","n","s","o","r",","," ","T","e","n","s","o","r",")"," ","-",">"," ","T","e","n","s","o","r">>,
     \* _th_ne(Tensor, Tensor) -> Tensor
     s_AtenXlaType__ne, None>>,
   <<<<"s","_","_","t","h","_","a","n","d","(","T","e","n","s","o","r",","," ","T","e","n","s","o","r",")"," ","-",">"," ","T","e","n","s","o","r">>,
     \* s__th_and(Tensor, Tensor) -> Tensor
     s_AtenXlaType____and__, << <<0, 1>> >>>>,
   <<<<"s","_","_","t","h","_","o","r","(","T","e","n","s","o","r",","," ","T","e","n","s","o","r",")"," ","-",">"," ","T","e","n","s","o","r">>,
     \* s__th_or(Tensor, Tensor) -> Tensor
     s_AtenXlaType____or__, << <<0, 1>> >>>>,
   <<<<"s","_","_","t","h","_","e","q","(","T","e","n","s","o","r",","," ","T","e","n","s","o","r",")"," ","-",">"," ","T","e","n","s","o","r">>,
     \* s__th_eq(Tensor, Tensor) -> Tensor
     s_AtenXlaType__eq, << <<0, 1>> >>>>}

\* 'slice(Tensor, int64_t, int64_t, int64_t, int64_t) -> Tensor'
s_slice_mapsig == <<"s","l","i","c","e","(","T","e","n","s","o","r",","," ",
  "i","n","t","6","4","_","t",","," ","i","n","t","6","4","_","t",","," ",
  "i","n","t","6","4","_","t",","," ","i","n","t","6","4","_","t",")"," ",
  "-",">"," ","T","e","n","s","o","r">>

\* 'max_pool2d(Tensor, IntArrayRef, IntArrayRef, IntArrayRef, IntArrayRef, bool) -> Tensor'
s_autograd_1 == <<"m","a","x","_","p","o","o","l","2","d","(","T","e","n",
  "s","o","r",","," ","I","n","t","A","r","r","a","y","R","e","f",","," ",
  "I","n","t","A","r","r","a","y","R","e","f",","," ","I","n","t","A","r",
  "r","a","y","R","e","f",","," ","I","n","t","A","r","r","a","y","R","e",
  "f",","," ","b","o","o","l",")"," ","-",">"," ","T","e","n","s","o","r">>

\* 'max_pool3d(Tensor, IntArrayRef, IntArrayRef, IntArrayRef, IntArrayRef, bool) -> Tensor'
s_autograd_2 == <<"m","a","x","_","p","o","o","l","3","d","(","T","e","n",
  "s","o","r",","," ","I","n","t","A","r","r","a","y","R","e","f",","," ",
  "I","n","t","A","r","r","a","y","R","e","f",","," ","I","n","t","A","r",
  "r","a","y","R","e","f",","," ","I","n","t","A","r","r","a","y","R","e",
  "f",","," ","b","o","o","l",")"," ","-",">"," ","T","e","n","s","o","r">>

\* _FN_REMAP, by map signature
FN_REMAP ==
  [m \in {e[1] : e \in FN_REMAP_ENTRIES} |->
     LET e == CHOOSE x \in FN_REMAP_ENTRIES : x[1] = m
     IN  [FuncOpts EXCEPT !.outfn_name = e[2], !.shape_check_indices = e[3]]]

\* _FN_OUT, by name
FN_OUT == [n \in FN_OUT_NAMES |-> FuncOpts]

\* _FUNCTION_OPTIONS, by map signature
FUNCTION_OPTIONS ==
  [m \in {s_slice_mapsig} |-> [FuncOpts EXCEPT !.wparams = <<s_self>>]]

\* _FN_BLACKLIST
FN_BLACKLIST == {}

\* _FN_AUTOGRAD_XLA
FN_AUTOGRAD_XLA == {s_autograd_1, s_autograd_2}

\* re.match(r'[^(]*cudnn', s)
MatchesCudnn(s) ==
  \E i \in 1..Len(s) :
    StartsAt(s, s_cudnn, i) /\ \A j \in 1..(i - 1) : s[j] # "("

is_blacklisted_fn(fname, mapsig) ==
  \/ fname \in FN_BLACKLIST
  \/ mapsig \in FN_BLACKLIST
  \/ MatchesCudnn(fname)
  \/ MatchesCudnn(mapsig)

\* A table's answer: the options found, or that there are none.
Found(fnopts) == [found |-> TRUE, fnopts |-> fnopts]

NotFound == [found |-> FALSE, fnopts |-> FuncOpts]

\* get_outfn_options(fname, mapsig); _FN_OUT_REGEX is empty.
get_outfn_options(fname, mapsig) ==
  IF fname \in DOMAIN FN_OUT THEN Found(FN_OUT[fname])
  ELSE IF mapsig \in DOMAIN FN_OUT THEN Found(FN_OUT[mapsig])
  ELSE NotFound

\* get_remapfn_options() that looks the map signature up without its spaces.
get_remapfn_options_Stripped(fname, mapsig) ==
  IF \E k \in DOMAIN FN_REMAP : get_mapsig_key(k) = get_mapsig_key(mapsig)
    THEN Found(FN_REMAP[CHOOSE k \in DOMAIN FN_REMAP :
                          get_mapsig_key(k) = get_mapsig_key(mapsig)])
    ELSE NotFound

get_remapfn_options(fname, mapsig) ==
  IF fname \in DOMAIN FN_REMAP THEN Found(FN_REMAP[fname])
  ELSE IF mapsig \in DOMAIN FN_REMAP THEN Found(FN_REMAP[mapsig])
  ELSE NotFound

RECURSIVE ShapeChecks(_, _, _)
\* generate_shape_checks from the pairs left on; raises on a pair that
\* names no parameter.
ShapeChecks(param_vars, indices, fname) ==
  IF indices = <<>> THEN Code(<<>>)
  ELSE IF Head(indices)[1] >= Len(param_vars) \/ Head(indices)[2] >= Len(param_vars)
    THEN Raised
  ELSE IF ShapeChecks(param_vars, Tail(indices), fname).raised THEN Raised
  ELSE Code(Cat(<<s_XLA_CHECK, param_vars[Head(indices)[1] + 1], s_sizes_eq,
                  param_vars[Head(indices)[2] + 1], s_shapes_msg, fname, s_mismatch,
                  Str(Head(indices)[1] + 1), s_and, Str(Head(indices)[2] + 1), s_msg_end,
                  ShapeChecks(param_vars, Tail(indices), fname).code>>))

generate_shape_checks(param_vars, shape_check_indices, fname) ==
  ShapeChecks(param_vars, shape_check_indices, fname)

RemapWith(sig, fcall, checks) ==
  IF fcall.raised \/ checks.raised THEN Raised
  ELSE Code(Cat(<<sig, s_brace_open, checks.code, s_return, fcall.code, s_stmt_end,
                  s_brace_close>>))

generate_aten_remap(ctx, fname, sig, params, fnopts) ==
  RemapWith(sig,
            IF fnopts.outfn_template # None
              THEN expand_fn_template(fnopts.outfn_template, get_param_names(params))
            ELSE IF fnopts.outfn_name = None THEN Raised
            ELSE Code(create_call(fnopts.outfn_name, get_param_names(params))),
            IF fnopts.shape_check_indices # None
              THEN generate_shape_checks(get_param_names(params),
                                         fnopts.shape_check_indices, fname)
              ELSE Code(<<>>))

\* FuncDef
FuncDef(cpp_sig, aten_sig, dispatch, math) ==
  [cpp_sig |-> cpp_sig, aten_sig |-> aten_sig, dispatch |-> dispatch, math |-> math]

\* The selection of get_xla_wrapper without the remap table.
Strategy_NoRemap(fname, mapsig) ==
  IF is_blacklisted_fn(fname, mapsig) THEN "none"
  ELSE IF get_outfn_options(fname, mapsig).found THEN "out"
  ELSE "default"

\* The strategy get_xla_wrapper selects for the function.
Strategy(fname, mapsig) ==
  IF is_blacklisted_fn(fname, mapsig) THEN "none"
  ELSE IF get_outfn_options(fname, mapsig).found THEN "out"
  ELSE IF get_remapfn_options(fname, mapsig).found THEN "remap"
  ELSE "default"

\* The code of the selected strategy; None for a blacklisted function.
WrapperCode(ctx, tree, rwxtree, fname, sig, rwsig, mapsig, params) ==
  CASE Strategy(fname, mapsig) = "none" -> Code(None)
    [] Strategy(fname, mapsig) = "out" ->
         generate_aten_out(tree, rwxtree, fname, sig, rwsig, params,
                           get_outfn_options(fname, mapsig).fnopts)
    [] Strategy(fname, mapsig) = "remap" ->
         generate_aten_remap(ctx, fname, sig, params,
                             get_remapfn_options(fname, mapsig).fnopts)
    [] OTHER ->
         generate_aten_to_xla(ctx, tree, rwxtree, fname, sig, rwsig, params,
                              IF mapsig \in DOMAIN FUNCTION_OPTIONS
                                THEN FUNCTION_OPTIONS[mapsig] ELSE FuncOpts)

\* FuncGen without its three trees, which the text of sig and rwsig give
\* back; raised is TRUE where get_xla_wrapper raised instead.
FuncGen(fndef, rwxtree, rwsig, mapsig, fs, wrapped) ==
  [raised |-> wrapped.raised,
   func |-> fs.fname,
   xfunc |-> fs.xfname,
   code |-> wrapped.code,
   sig |-> fndef.cpp_sig,
   rwsig |-> rwsig,
   cppsig |-> fs.sig,
   mapsig |-> mapsig,
   funsig |-> create_stdfunc_sig(rwxtree, rwsig),
   aten_sig |-> fndef.aten_sig,
   dispatch |-> fndef.dispatch,
   math |-> fndef.math]

WrapperOf(fndef, ctx, tree, rwxtree, rwsig, mapsig, fs) ==
  FuncGen(fndef, rwxtree, rwsig, mapsig, fs,
          WrapperCode(ctx, tree, rwxtree, fs.fname, fs.sig, rwsig, mapsig,
                      get_parameters(tree)))

WrapperRewritten(fndef, ctx, tree, rwxtree, rwsig, mapsig) ==
  WrapperOf(fndef, ctx, tree, rwxtree, rwsig, mapsig,
            get_function_signature(rwxtree, rwsig))

\* What stands for the record where get_xla_wrapper raised before it had
\* one.
NoFuncGen(fndef) ==
  [raised |-> TRUE, func |-> <<>>, xfunc |-> <<>>, code |-> None, sig |-> fndef.cpp_sig,
   rwsig |-> <<>>, cppsig |-> <<>>, mapsig |-> <<>>, funsig |-> <<>>,
   aten_sig |-> fndef.aten_sig, dispatch |-> fndef.dispatch, math |-> fndef.math]

\* rwxtree = _XPARSER.parse(rwsig), rwx being the parse, and what follows.
WrapperParsed(fndef, ctx, xtree, rwsig, rwx) ==
  IF ~rwx.ok THEN NoFuncGen(fndef)
  ELSE WrapperRewritten(fndef, ctx, Reduced(xtree), rwx.tree, rwsig,
                        create_map_sig(xtree, fndef.cpp_sig))

\* tree = _PARSER.parse(fndef.cpp_sig), x being the parse of the verbatim
\* parser, which accepts the same texts, and what follows.
WrapperFrom(fndef, ctx, x, rwsig) ==
  IF ~x.ok THEN NoFuncGen(fndef)
  ELSE WrapperParsed(fndef, ctx, x.tree, rwsig, XPARSER(rwsig))

\* get_xla_wrapper(fndef, ctx)
get_xla_wrapper(fndef, ctx) ==
  WrapperFrom(fndef, ctx, XPARSER(fndef.cpp_sig),
              rewrite_signature(fndef.cpp_sig, TYPE_NSMAP))

\* ------------------------------------------------------------ the inputs

\* The values of the JSON fields of a declaration line.
\* 'True'
s_True == <<"T","r","u","e">>

\* 'False'
s_False == <<"F","a","l","s","e">>

\* 'Tensor abs(const Tensor & self); // '
\* {"schema": 'aten::abs(Tensor self) -> Tensor', "dispatch": "True", "math": "False"}
DeclAbsText == <<"T","e","n","s","o","r"," ","a","b","s","(","c","o","n",
  "s","t"," ","T","e","n","s","o","r"," ","&"," ","s","e","l","f",")",";",
  " ","/","/"," ">>

t_DeclAbs == <<"a","t","e","n",":",":","a","b","s","(","T","e","n","s","o",
  "r"," ","s","e","l","f",")"," ","-",">"," ","T","e","n","s","o","r">>

DeclAbs == [text |-> DeclAbsText, fields |-> [schema |-> t_DeclAbs, dispatch |-> s_True, math |-> s_False]]

\* 'Tensor relu(const Tensor & self); // '
\* {"schema": 'aten::relu(Tensor self) -> Tensor', "dispatch": "False", "math": "True"}
DeclReluText == <<"T","e","n","s","o","r"," ","r","e","l","u","(","c","o",
  "n","s","t"," ","T","e","n","s","o","r"," ","&"," ","s","e","l","f",")",
  ";"," ","/","/"," ">>

t_DeclRelu == <<"a","t","e","n",":",":","r","e","l","u","(","T","e","n","s",
  "o","r"," ","s","e","l","f",")"," ","-",">"," ","T","e","n","s","o","r">>

DeclRelu == [text |-> DeclReluText, fields |-> [schema |-> t_DeclRelu, dispatch |-> s_True, math |-> s_True]]

\* 'Tensor & abs_out(Tensor & out, const Tensor & self); // '
\* {"schema": 'aten::abs.out(Tensor self, *, Tensor(a!) out) -> Tensor(a!)', "dispatch": "True"}
DeclAbsOutText == <<"T","e","n","s","o","r"," ","&"," ","a","b","s","_","o",
  "u","t","(","T","e","n","s","o","r"," ","&"," ","o","u","t",","," ","c",
  "o","n","s","t"," ","T","e","n","s","o","r"," ","&"," ","s","e","l","f",
  ")",";"," ","/","/"," ">>

t_DeclAbsOut == <<"a","t","e","n",":",":","a","b","s",".","o","u","t","(",
  "T","e","n","s","o","r"," ","s","e","l","f",","," ","*",","," ","T","e",
  "n","s","o","r","(","a","!",")"," ","o","u","t",")"," ","-",">"," ","T",
  "e","n","s","o","r","(","a","!",")">>

DeclAbsOut == [text |-> DeclAbsOutText, fields |-> [schema |-> t_DeclAbsOut, dispatch |-> s_True]]

\* 'Tensor max_pool2d(const Tensor & self, IntArrayRef kernel_size, IntArrayRef stride, IntArrayRef padding, IntArrayRef dilation, bool ceil_mode); // '
\* {"schema": 'aten::max_pool2d(Tensor self, int[2] kernel_size, int[2] stride=[], int[2] padding=0, int[2] dilation=1, bool ceil_mode=False) -> Tensor', "dispatch": "False", "math": "True"}
DeclMaxPool2dText == <<"T","e","n","s","o","r"," ","m","a","x","_","p","o",
  "o","l","2","d","(","c","o","n","s","t"," ","T","e","n","s","o","r"," ",
  "&"," ","s","e","l","f",","," ","I","n","t","A","r","r","a","y","R","e",
  "f"," ","k","e","r","n","e","l","_","s","i","z","e",","," ","I","n","t",
  "A","r","r","a","y","R","e","f"," ","s","t","r","i","d","e",","," ","I",
  "n","t","A","r","r","a","y","R","e","f"," ","p","a","d","d","i","n","g",
  ","," ","I","n","t","A","r","r","a","y","R","e","f"," ","d","i","l","a",
  "t","i","o","n",","," ","b","o","o","l"," ","c","e","i","l","_","m","o",
  "d","e",")",";"," ","/","/"," ">>

t_DeclMaxPool2d == <<"a","t","e","n",":",":","m","a","x","_","p","o","o",
  "l","2","d","(","T","e","n","s","o","r"," ","s","e","l","f",","," ","i",
  "n","t","[","2","]"," ","k","e","r","n","e","l","_","s","i","z","e",",",
  " ","i","n","t","[","2","]"," ","s","t","r","i","d","e","=","[","]",",",
  " ","i","n","t","[","2","]"," ","p","a","d","d","i","n","g","=","0",",",
  " ","i","n","t","[","2","]"," ","d","i","l","a","t","i","o","n","=","1",
  ","," ","b","o","o","l"," ","c","e","i","l","_","m","o","d","e","=","F",
  "a","l","s","e",")"," ","-",">"," ","T","e","n","s","o","r">>

DeclMaxPool2d == [text |-> DeclMaxPool2dText, fields |-> [schema |-> t_DeclMaxPool2d, dispatch |-> s_False, math |-> s_True]]

\* 'Tensor cudnn_is_acceptable(const Tensor & self); // '
\* {"schema": 'aten::cudnn_is_acceptable(Tensor self) -> Tensor', "dispatch": "True", "math": "False"}
DeclCudnnText == <<"T","e","n","s","o","r"," ","c","u","d","n","n","_","i",
  "s","_","a","c","c","e","p","t","a","b","l","e","(","c","o","n","s","t",
  " ","T","e","n","s","o","r"," ","&"," ","s","e","l","f",")",";"," ","/",
  "/"," ">>

t_DeclCudnn == <<"a","t","e","n",":",":","c","u","d","n","n","_","i","s",
  "_","a","c","c","e","p","t","a","b","l","e","(","T","e","n","s","o","r",
  " ","s","e","l","f",")"," ","-",">"," ","T","e","n","s","o","r">>

DeclCudnn == [text |-> DeclCudnnText, fields |-> [schema |-> t_DeclCudnn, dispatch |-> s_True, math |-> s_True]]

\* '\tTensor ones(IntArrayRef size); // '
\* {"schema": 'aten::ones(int[] size) -> Tensor', "dispatch": "True", "math": "False"}
DeclOnesText == <<"\t","T","e","n","s","o","r"," ","o","n","e","s","(","I",
  "n","t","A","r","r","a","y","R","e","f"," ","s","i","z","e",")",";"," ",
  "/","/"," ">>

t_DeclOnes == <<"a","t","e","n",":",":","o","n","e","s","(","i","n","t","[",
  "]"," ","s","i","z","e",")"," ","-",">"," ","T","e","n","s","o","r">>

DeclOnes == [text |-> DeclOnesText, fields |-> [schema |-> t_DeclOnes, dispatch |-> s_True, math |-> s_False]]

\* 'Tensor bad(Tensor); // '
\* {"schema": 'aten::bad(Tensor self) -> Tensor', "dispatch": "True", "math": "False"}
DeclBadTensorText == <<"T","e","n","s","o","r"," ","b","a","d","(","T","e",
  "n","s","o","r",")",";"," ","/","/"," ">>

t_DeclBadTensor == <<"a","t","e","n",":",":","b","a","d","(","T","e","n",
  "s","o","r"," ","s","e","l","f",")"," ","-",">"," ","T","e","n","s","o",
  "r">>

DeclBadTensor == [text |-> DeclBadTensorText, fields |-> [schema |-> t_DeclBadTensor, dispatch |-> s_True, math |-> s_False]]

\* 'void bad_(TensorList, at::Tensor &); // '
\* {"schema": 'aten::bad_(Tensor[] l, Tensor(a!) self) -> ()', "dispatch": "True", "math": "False"}
DeclBadTensorListText == <<"v","o","i","d"," ","b","a","d","_","(","T","e",
  "n","s","o","r","L","i","s","t",","," ","a","t",":",":","T","e","n","s",
  "o","r"," ","&",")",";"," ","/","/"," ">>

t_DeclBadTensorList == <<"a","t","e","n",":",":","b","a","d","_","(","T",
  "e","n","s","o","r","[","]"," ","l",","," ","T","e","n","s","o","r","(",
  "a","!",")"," ","s","e","l","f",")"," ","-",">"," ","(",")">>

DeclBadTensorList == [text |-> DeclBadTensorListText, fields |-> [schema |-> t_DeclBadTensorList, dispatch |-> s_True, math |-> s_False]]

\* 'int64_t size(TensorList tensors, int64_t dim=-); // '
\* {"schema": 'aten::size(Tensor[] tensors, int dim) -> int'}
DeclBadOtherText == <<"i","n","t","6","4","_","t"," ","s","i","z","e","(",
  "T","e","n","s","o","r","L","i","s","t"," ","t","e","n","s","o","r","s",
  ","," ","i","n","t","6","4","_","t"," ","d","i","m","=","-",")",";"," ",
  "/","/"," ">>

t_DeclBadOther == <<"a","t","e","n",":",":","s","i","z","e","(","T","e","n",
  "s","o","r","[","]"," ","t","e","n","s","o","r","s",","," ","i","n","t",
  " ","d","i","m",")"," ","-",">"," ","i","n","t">>

DeclBadOther == [text |-> DeclBadOtherText, fields |-> [schema |-> t_DeclBadOther]]

\* The lines the declaration source may hold, in the order it holds them.
DeclarationLines ==
  <<DeclAbs, DeclRelu, DeclAbsOut, DeclMaxPool2d, DeclCudnn, DeclOnes, DeclBadTensor,
    DeclBadTensorList, DeclBadOther>>

\* '  static at::Tensor abs(const at::Tensor & self);'
OvAbsLine == <<" "," ","s","t","a","t","i","c"," ","a","t",":",":","T","e",
  "n","s","o","r"," ","a","b","s","(","c","o","n","s","t"," ","a","t",":",
  ":","T","e","n","s","o","r"," ","&"," ","s","e","l","f",")",";">>

OvAbs == <<OvAbsLine>>

\* '  static at::Tensor relu('
\* '      const at::Tensor& self);'
OvReluLine1 == <<" "," ","s","t","a","t","i","c"," ","a","t",":",":","T",
  "e","n","s","o","r"," ","r","e","l","u","(">>

OvReluLine2 == <<" "," "," "," "," "," ","c","o","n","s","t"," ","a","t",
  ":",":","T","e","n","s","o","r","&"," ","s","e","l","f",")",";">>

OvRelu == <<OvReluLine1, OvReluLine2>>

\* '  static at::Tensor ones(at::IntArrayRef size);'
OvOnesLine == <<" "," ","s","t","a","t","i","c"," ","a","t",":",":","T","e",
  "n","s","o","r"," ","o","n","e","s","(","a","t",":",":","I","n","t","A",
  "r","r","a","y","R","e","f"," ","s","i","z","e",")",";">>

OvOnes == <<OvOnesLine>>

\* '  static at::Tensor cudnn_is_acceptable(const at::Tensor & self);'
OvCudnnLine == <<" "," ","s","t","a","t","i","c"," ","a","t",":",":","T",
  "e","n","s","o","r"," ","c","u","d","n","n","_","i","s","_","a","c","c",
  "e","p","t","a","b","l","e","(","c","o","n","s","t"," ","a","t",":",":",
  "T","e","n","s","o","r"," ","&"," ","s","e","l","f",")",";">>

OvCudnn == <<OvCudnnLine>>

\* '  static at::Tensor trace(const at::Tensor & self);'
OvTraceLine == <<" "," ","s","t","a","t","i","c"," ","a","t",":",":","T",
  "e","n","s","o","r"," ","t","r","a","c","e","(","c","o","n","s","t"," ",
  "a","t",":",":","T","e","n","s","o","r"," ","&"," ","s","e","l","f",")",
  ";">>

OvTrace == <<OvTraceLine>>

\* '  static std::string ToString(int64_t value);'
OvToStringLine == <<" "," ","s","t","a","t","i","c"," ","s","t","d",":",":",
  "s","t","r","i","n","g"," ","T","o","S","t","r","i","n","g","(","i","n",
  "t","6","4","_","t"," ","v","a","l","u","e",")",";">>

OvToString == <<OvToStringLine>>

\* The declarations the override source may hold, in the order it holds them.
OverrideDeclarations ==
  <<OvAbs, OvRelu, OvOnes, OvCudnn, OvTrace, OvToString>>

\* 'class AtenXlaType {'
ClassLine == <<"c","l","a","s","s"," ","A","t","e","n","X","l","a","T","y",
  "p","e"," ","{">>

\* 'static'
s_static == <<"s","t","a","t","i","c">>

\* '; //'
s_decl_end == <<";"," ","/","/">>

\* The functions header: what Context reads of args.functions.
\* 'Tensor abs(const Tensor & self);\nTensor relu(const Tensor & self);\n'
FunctionsHeader == <<"T","e","n","s","o","r"," ","a","b","s","(","c","o",
  "n","s","t"," ","T","e","n","s","o","r"," ","&"," ","s","e","l","f",")",
  ";","\n","T","e","n","s","o","r"," ","r","e","l","u","(","c","o","n","s",
  "t"," ","T","e","n","s","o","r"," ","&"," ","s","e","l","f",")",";","\n">>

\* 'relu'
s_relu == <<"r","e","l","u">>

\* ------------------------------------------------------ reading the sources

\* What \s of a regular expression and str.strip() take for whitespace.
PyWS == {" ", "\t", "\n", "\r", "\f"}

RECURSIVE strip(_)
\* line.strip()
strip(s) ==
  IF s = <<>> THEN s
  ELSE IF s[1] \in PyWS THEN strip(Tail(s))
  ELSE IF s[Len(s)] \in PyWS THEN strip(SubSeq(s, 1, Len(s) - 1))
  ELSE s

\* The positions at which the text holds sub.
Occurrences(s, sub) == {i \in 1..Len(s) : StartsAt(s, sub, i)}

Last(S) == CHOOSE i \in S : \A j \in S : j <= i

First(S) == CHOOSE i \in S : \A j \in S : i <= j

\* re.match(r'\s*([^\s].*); //\s+(.*)', line) on the text of a declaration
\* line up to its JSON: the ends of group 1, the last '; //' that
\* whitespace follows and that is not the start of the group.
DeclEnds(text) ==
  {i \in Occurrences(text, s_decl_end) :
     /\ i + Len(s_decl_end) <= Len(text)
     /\ text[i + Len(s_decl_end)] \in PyWS
     /\ \E j \in 1..(i - 1) : text[j] \notin PyWS}

\* group(1) of the match, None when the line does not match.
DeclOfLine(text) ==
  IF DeclEnds(text) = {} THEN None
  ELSE SubSeq(text, First({j \in 1..Len(text) : text[j] \notin PyWS}),
              Last(DeclEnds(text)) - 1)

\* create_funcdef(fndef, jdata), fields being json.loads(jdata); raises
\* without a schema.
create_funcdef(fndef, fields) ==
  IF "schema" \notin DOMAIN fields THEN [raised |-> TRUE]
  ELSE [raised |-> FALSE,
        fndef |-> FuncDef(fndef, fields.schema,
                          "dispatch" \in DOMAIN fields /\ fields.dispatch = s_True,
                          "math" \in DOMAIN fields /\ fields.math = s_True)]

\* The body of a loop that takes every declaration that fails for an error.
ExtractOne_AllErrors(fndef, fields) ==
  IF fndef = None THEN [functions |-> <<>>, errors |-> <<>>]
  ELSE IF XPARSER(fndef).ok /\ ~create_funcdef(fndef, fields).raised
    THEN [functions |-> <<create_funcdef(fndef, fields).fndef>>, errors |-> <<>>]
  ELSE [functions |-> <<>>, errors |-> <<fndef>>]

\* The body of extract_functions' loop for one line: what the line adds to
\* functions and to errors.
ExtractOne(fndef, fields) ==
  IF fndef = None THEN [functions |-> <<>>, errors |-> <<>>]
  ELSE IF XPARSER(fndef).ok /\ ~create_funcdef(fndef, fields).raised
    THEN [functions |-> <<create_funcdef(fndef, fields).fndef>>, errors |-> <<>>]
  ELSE IF is_tensor_api(fndef).is_tensor
    THEN [functions |-> <<>>, errors |-> <<fndef>>]
  ELSE [functions |-> <<>>, errors |-> <<>>]

\* re.match(r'static\s+(.*);', line): whether it matches, and group(1)
StaticDeclaration(line) ==
  LET ends == {i \in Occurrences(line, <<";">>) : i > Len(s_static) + 1}
      from == {j \in (Len(s_static) + 1)..Len(line) : line[j] \notin PyWS}
  IN  IF /\ StartsAt(line, s_static, 1)
         /\ Len(line) > Len(s_static)
         /\ line[Len(s_static) + 1] \in PyWS
         /\ ends # {}
      THEN [matched |-> TRUE, group |-> SubSeq(line, First(from), Last(ends) - 1)]
      ELSE [matched |-> FALSE, group |-> <<>>]

\* re.match(r'static\s+(.*)', line): group(1), None without a match
StaticStart(line) ==
  LET from == {j \in (Len(s_static) + 1)..Len(line) : line[j] \notin PyWS}
  IN  IF /\ StartsAt(line, s_static, 1)
         /\ Len(line) > Len(s_static)
         /\ line[Len(s_static) + 1] \in PyWS
      THEN IF from = {} THEN <<>> ELSE SubSeq(line, First(from), Len(line))
      ELSE None

RECURSIVE OverrideFunctions(_, _, _)

OverrideContinued(rest, functions, fndef) ==
  IF fndef[Len(fndef)] = ";"
    THEN OverrideFunctions(rest, Append(functions, SubSeq(fndef, 1, Len(fndef) - 1)), None)
    ELSE OverrideFunctions(rest, functions, fndef)

OverrideLine(line, rest, functions, fndef) ==
  IF fndef = None
    THEN IF StaticDeclaration(line).matched
           THEN OverrideFunctions(rest, Append(functions, StaticDeclaration(line).group),
                                  None)
           ELSE OverrideFunctions(rest, functions, StaticStart(line))
    ELSE OverrideContinued(rest, functions, Cat(<<fndef, <<" ">>, line>>))

\* The first loop of parse_local_overrides from the lines left on, with the
\* functions and the unfinished declaration so far; raises when a
\* declaration is left unfinished.
OverrideFunctions(lines, functions, fndef) ==
  IF lines = <<>>
    THEN [raised |-> fndef # None, functions |-> functions]
    ELSE OverrideLine(strip(Head(lines)), Tail(lines), functions, fndef)

\* A dict of python: its items in the order of insertion.
Keys(d) == {d[i].key : i \in 1..Len(d)}

\* overrides[key] = fndef
Put(overrides, key, fndef) ==
  IF key \in Keys(overrides)
    THEN [i \in 1..Len(overrides) |->
            IF overrides[i].key = key THEN [key |-> key, value |-> fndef]
            ELSE overrides[i]]
    ELSE Append(overrides, [key |-> key, value |-> fndef])

RECURSIVE OverrideTable(_, _)

OverrideEntry(api, rest, overrides) ==
  IF ~api.is_tensor THEN OverrideTable(rest, overrides)
  ELSE IF ~XPARSER(api.fndef).ok THEN [raised |-> TRUE, overrides |-> overrides]
  ELSE OverrideTable(rest,
                     Put(overrides,
                         get_mapsig_key(create_map_sig(XPARSER(api.fndef).tree, api.fndef)),
                         api.fndef))

\* The second loop of parse_local_overrides, from the functions left on.
OverrideTable(functions, overrides) ==
  IF functions = <<>> THEN [raised |-> FALSE, overrides |-> overrides]
  ELSE OverrideEntry(is_tensor_api(Head(functions)), Tail(functions), overrides)

NoOverrides == <<>>

OverridesOf(read) ==
  IF read.raised THEN [raised |-> TRUE, overrides |-> NoOverrides]
  ELSE OverrideTable(read.functions, NoOverrides)

\* parse_local_overrides(path), over the lines of the file
parse_local_overrides(lines) == OverridesOf(OverrideFunctions(lines, <<>>, None))

\* ------------------------------------------------------ texts of the output

\* '// Autogenerated file by '
H_HEADER_1 == <<"/","/"," ","A","u","t","o","g","e","n","e","r","a","t","e",
  "d"," ","f","i","l","e"," ","b","y"," ">>

\* '. Do not edit directly!\n\n#include <ATen/Tensor.h>\n\nnamespace torch_xla {\n\nclass AtenXlaTypeDefault {\n public:\n'
H_HEADER_2 == <<"."," ","D","o"," ","n","o","t"," ","e","d","i","t"," ","d",
  "i","r","e","c","t","l","y","!","\n","\n","#","i","n","c","l","u","d","e",
  " ","<","A","T","e","n","/","T","e","n","s","o","r",".","h",">","\n","\n",
  "n","a","m","e","s","p","a","c","e"," ","t","o","r","c","h","_","x","l",
  "a"," ","{","\n","\n","c","l","a","s","s"," ","A","t","e","n","X","l","a",
  "T","y","p","e","D","e","f","a","u","l","t"," ","{","\n"," ","p","u","b",
  "l","i","c",":","\n">>

\* '\n};\n\nvoid RegisterAtenTypeFunctions();\n\n}  // namespace torch_xla\n'
H_HEADER_3 == <<"\n","}",";","\n","\n","v","o","i","d"," ","R","e","g","i",
  "s","t","e","r","A","t","e","n","T","y","p","e","F","u","n","c","t","i",
  "o","n","s","(",")",";","\n","\n","}"," "," ","/","/"," ","n","a","m","e",
  "s","p","a","c","e"," ","t","o","r","c","h","_","x","l","a","\n">>

\* '// Autogenerated file by '
CPP_HEADER_1 == <<"/","/"," ","A","u","t","o","g","e","n","e","r","a","t",
  "e","d"," ","f","i","l","e"," ","b","y"," ">>

\* '. Do not edit directly!\n#include "torch_xla/csrc/aten_xla_type_default.h"\n\n#include <ATen/Context.h>\n#include <torch/library.h>\n#include <ATen/CPUGeneratorImpl.h>\n\n#include "tensorflow/compiler/xla/xla_client/debug_macros.h"\n#include "tensorflow/compiler/xla/xla_client/metrics.h"\n#include "tensorflow/compiler/xla/xla_client/tf_logging.h"\n#include "torch_xla/csrc/aten_xla_bridge.h"\n#include "torch_xla/csrc/aten_xla_type.h"\n#include "torch_xla/csrc/function_call_tracker.h"\n\nnamespace torch_xla {\n\n'
CPP_HEADER_2 == <<"."," ","D","o"," ","n","o","t"," ","e","d","i","t"," ",
  "d","i","r","e","c","t","l","y","!","\n","#","i","n","c","l","u","d","e",
  " ","\"","t","o","r","c","h","_","x","l","a","/","c","s","r","c","/","a",
  "t","e","n","_","x","l","a","_","t","y","p","e","_","d","e","f","a","u",
  "l","t",".","h","\"","\n","\n","#","i","n","c","l","u","d","e"," ","<",
  "A","T","e","n","/","C","o","n","t","e","x","t",".","h",">","\n","#","i",
  "n","c","l","u","d","e"," ","<","t","o","r","c","h","/","l","i","b","r",
  "a","r","y",".","h",">","\n","#","i","n","c","l","u","d","e"," ","<","A",
  "T","e","n","/","C","P","U","G","e","n","e","r","a","t","o","r","I","m",
  "p","l",".","h",">","\n","\n","#","i","n","c","l","u","d","e"," ","\"",
  "t","e","n","s","o","r","f","l","o","w","/","c","o","m","p","i","l","e",
  "r","/","x","l","a","/","x","l","a","_","c","l","i","e","n","t","/","d",
  "e","b","u","g","_","m","a","c","r","o","s",".","h","\"","\n","#","i","n",
  "c","l","u","d","e"," ","\"","t","e","n","s","o","r","f","l","o","w","/",
  "c","o","m","p","i","l","e","r","/","x","l","a","/","x","l","a","_","c",
  "l","i","e","n","t","/","m","e","t","r","i","c","s",".","h","\"","\n","#",
  "i","n","c","l","u","d","e"," ","\"","t","e","n","s","o","r","f","l","o",
  "w","/","c","o","m","p","i","l","e","r","/","x","l","a","/","x","l","a",
  "_","c","l","i","e","n","t","/","t","f","_","l","o","g","g","i","n","g",
  ".","h","\"","\n","#","i","n","c","l","u","d","e"," ","\"","t","o","r",
  "c","h","_","x","l","a","/","c","s","r","c","/","a","t","e","n","_","x",
  "l","a","_","b","r","i","d","g","e",".","h","\"","\n","#","i","n","c","l",
  "u","d","e"," ","\"","t","o","r","c","h","_","x","l","a","/","c","s","r",
  "c","/","a","t","e","n","_","x","l","a","_","t","y","p","e",".","h","\"",
  "\n","#","i","n","c","l","u","d","e"," ","\"","t","o","r","c","h","_","x",
  "l","a","/","c","s","r","c","/","f","u","n","c","t","i","o","n","_","c",
  "a","l","l","_","t","r","a","c","k","e","r",".","h","\"","\n","\n","n",
  "a","m","e","s","p","a","c","e"," ","t","o","r","c","h","_","x","l","a",
  " ","{","\n","\n">>

\* '\n\n'
CPP_HEADER_3 == <<"\n","\n">>

\* '\n}  // namespace torch_xla\n'
CPP_HEADER_4 == <<"\n","}"," "," ","/","/"," ","n","a","m","e","s","p","a",
  "c","e"," ","t","o","r","c","h","_","x","l","a","\n">>

\* 'gen.py'
s_gen_py == <<"g","e","n",".","p","y">>

\* '  m.impl_UNBOXED("'
s_impl_UNBOXED == <<" "," ","m",".","i","m","p","l","_","U","N","B","O","X",
  "E","D","(","\"">>

\* '", static_cast<'
s_static_cast_fn == <<"\"",","," ","s","t","a","t","i","c","_","c","a","s",
  "t","<">>

\* '>(&'
s_addr_of == <<">","(","&">>

\* 'TORCH_LIBRARY_IMPL(aten, XLA, m) {\n'
s_TORCH_XLA == <<"T","O","R","C","H","_","L","I","B","R","A","R","Y","_",
  "I","M","P","L","(","a","t","e","n",","," ","X","L","A",","," ","m",")",
  " ","{","\n">>

\* 'TORCH_LIBRARY_IMPL(aten, AutogradXLA, m) {\n'
s_TORCH_AUTOGRAD == <<"T","O","R","C","H","_","L","I","B","R","A","R","Y",
  "_","I","M","P","L","(","a","t","e","n",","," ","A","u","t","o","g","r",
  "a","d","X","L","A",","," ","m",")"," ","{","\n">>

\* '\n}\n'
s_table_end == <<"\n","}","\n">>

\* ' (*)'
s_fn_ptr == <<" ","(","*",")">>

\* '\n\n'
s_two_newlines == <<"\n","\n">>

\* '  static '
s_static_decl == <<" "," ","s","t","a","t","i","c"," ">>

\* '\n'
s_newline == <<"\n">>

\* ------------------------------------------------------------- registration

\* s.split(sep)[0]
BeforeFirst(s, sep) ==
  IF Occurrences(s, sep) = {} THEN s ELSE SubSeq(s, 1, First(Occurrences(s, sep)) - 1)

\* s.split(sep)[1], for an s that holds sep
SecondPart(s, sep) ==
  BeforeFirst(SubSeq(s, First(Occurrences(s, sep)) + Len(sep), Len(s)), sep)

\* generate_unboxed(aten_sig, overload, override_fn); raises on a schema
\* whose name holds no '::'.
generate_unboxed(aten_sig, overload, override_fn) ==
  IF Occurrences(BeforeFirst(aten_sig, <<"(">>), s_colons) = {} THEN Raised
  ELSE Code(Cat(<<s_impl_UNBOXED, SecondPart(BeforeFirst(aten_sig, <<"(">>), s_colons),
                  s_static_cast_fn, overload, s_addr_of, override_fn, <<")">>, s_call_end>>))

\* requires_registration() that takes no account of the math flag.
requires_registration_AnyDispatch(fgen, overrides, fn_autograd_xla) ==
  \/ fgen.dispatch
  \/ get_mapsig_key(fgen.mapsig) \in Keys(overrides)
  \/ fgen.mapsig \in fn_autograd_xla \/ fgen.func \in fn_autograd_xla

\* requires_registration(fgen, overrides); fn_autograd_xla is _FN_AUTOGRAD_XLA.
requires_registration(fgen, overrides, fn_autograd_xla) ==
  \/ fgen.dispatch /\ ~fgen.math
  \/ get_mapsig_key(fgen.mapsig) \in Keys(overrides)
  \/ fgen.mapsig \in fn_autograd_xla \/ fgen.func \in fn_autograd_xla

\* The function a registration binds if the generated wrapper came first.
OverrideFn_GeneratedFirst(fgen, overrides) ==
  IF fgen.code # None THEN fgen.xfunc
  ELSE IF get_mapsig_key(fgen.mapsig) \in Keys(overrides) THEN s_AtenXlaType \o fgen.func
  ELSE None

\* The function a registration binds, None when there is none to bind.
OverrideFn(fgen, overrides) ==
  IF get_mapsig_key(fgen.mapsig) \in Keys(overrides) THEN s_AtenXlaType \o fgen.func
  ELSE IF fgen.code # None THEN fgen.xfunc
  ELSE None

\* funsig[:pos] + ' (*)' + funsig[pos:], pos being funsig.find('(')
Overload(funsig) ==
  Cat(<<Slice(funsig, 0, Find(funsig, <<"(">>)), s_fn_ptr,
        SubSeq(funsig, Find(funsig, <<"(">>) + 1, Len(funsig))>>)

RECURSIVE Registrations(_, _, _, _)

Registered(fgen, rest, overrides, fn_autograd_xla, acc, unboxed) ==
  IF unboxed.raised THEN [acc EXCEPT !.raised = TRUE]
  ELSE Registrations(
         rest, overrides, fn_autograd_xla,
         [acc EXCEPT
            !.overridden = IF get_mapsig_key(fgen.mapsig) \in Keys(overrides)
                             THEN @ \cup {get_mapsig_key(fgen.mapsig)} ELSE @,
            !.autogradxla_code = IF fgen.mapsig \in fn_autograd_xla
                                   THEN @ \o unboxed.code ELSE @,
            !.aten_code = IF fgen.mapsig \in fn_autograd_xla
                            THEN @ ELSE @ \o unboxed.code])

\* The loop of generate_registrations from the records left on.
Registrations(fgens, overrides, fn_autograd_xla, acc) ==
  IF fgens = <<>> \/ acc.raised THEN acc
  ELSE IF ~requires_registration(Head(fgens), overrides, fn_autograd_xla)
    THEN Registrations(Tail(fgens), overrides, fn_autograd_xla, acc)
  ELSE IF OverrideFn(Head(fgens), overrides) = None
    THEN Registrations(Tail(fgens), overrides, fn_autograd_xla, acc)
  ELSE Registered(Head(fgens), Tail(fgens), overrides, fn_autograd_xla, acc,
                  generate_unboxed(Head(fgens).aten_sig, Overload(Head(fgens).funsig),
                                   OverrideFn(Head(fgens), overrides)))

\* generate_registrations(fgens, overrides): the two tables as the loop
\* leaves them and the keys bound to an override; the text returned is
\* aten_code + '\n}\n' + autogradxla_code + '\n}\n'.
generate_registrations(fgens, overrides, fn_autograd_xla) ==
  Registrations(fgens, overrides, fn_autograd_xla,
                [raised |-> FALSE, aten_code |-> s_TORCH_XLA,
                 autogradxla_code |-> s_TORCH_AUTOGRAD, overridden |-> {}])

RegistrationsText(regs) ==
  Cat(<<regs.aten_code, s_table_end, regs.autogradxla_code, s_table_end>>)

RECURSIVE generate_functions(_, _, _)
generate_functions(fgens, overrides, fn_autograd_xla) ==
  IF fgens = <<>> THEN <<>>
  ELSE (IF Head(fgens).code # None
           /\ requires_registration(Head(fgens), overrides, fn_autograd_xla)
        THEN Head(fgens).code \o s_two_newlines ELSE <<>>)
       \o generate_functions(Tail(fgens), overrides, fn_autograd_xla)

RECURSIVE generate_class_functions_NoBody(_, _, _)
\* generate_class_functions() that declares the records without a body too.
generate_class_functions_NoBody(fgens, overrides, fn_autograd_xla) ==
  IF fgens = <<>> THEN <<>>
  ELSE (IF requires_registration(Head(fgens), overrides, fn_autograd_xla)
        THEN Cat(<<s_static_decl, Head(fgens).rwsig, s_stmt_end>>) ELSE <<>>)
       \o generate_class_functions_NoBody(Tail(fgens), overrides, fn_autograd_xla)

RECURSIVE generate_class_functions(_, _, _)
generate_class_functions(fgens, overrides, fn_autograd_xla) ==
  IF fgens = <<>> THEN <<>>
  ELSE (IF Head(fgens).code # None
           /\ requires_registration(Head(fgens), overrides, fn_autograd_xla)
        THEN Cat(<<s_static_decl, Head(fgens).rwsig, s_stmt_end>>) ELSE <<>>)
       \o generate_class_functions(Tail(fgens), overrides, fn_autograd_xla)

\* check_overrides() that stops at the first entry it misses.
check_overrides_FirstOnly(overrides, overridden) ==
  IF \A k \in 1..Len(overrides) : get_mapsig_key(overrides[k].key) \in overridden
    THEN <<>>
    ELSE <<overrides[CHOOSE k \in 1..Len(overrides) :
                       /\ get_mapsig_key(overrides[k].key) \notin overridden
                       /\ \A n \in 1..(k - 1) :
                            get_mapsig_key(overrides[n].key) \in overridden]>>

\* check_overrides(overrides, overridden): the entries it reports as
\* missed; it returns whether there is none.
check_overrides(overrides, overridden) ==
  SelectSeq(overrides, LAMBDA item : get_mapsig_key(item.key) \notin overridden)

\* _H_HEADER.format(gen=..., hfuncs=hfunctions) and the newline of print
HeaderFile(hfunctions) ==
  Cat(<<H_HEADER_1, s_gen_py, H_HEADER_2, hfunctions, H_HEADER_3, s_newline>>)

\* _CPP_HEADER.format(gen=..., funcs=functions, regs=regs) and the newline
\* of print
CppFile(functions, regs) ==
  Cat(<<CPP_HEADER_1, s_gen_py, CPP_HEADER_2, functions, CPP_HEADER_3, regs,
        CPP_HEADER_4, s_newline>>)

\* 'Tensor &'
s_Tensor_ref == <<"T","e","n","s","o","r"," ","&">>

\* 'abs_out'
s_abs_out == <<"a","b","s","_","o","u","t">>

\* 'topk_out'
s_topk_out == <<"t","o","p","k","_","o","u","t">>

\* 'Tensor & '
s_type_Tensor_ref == <<"T","e","n","s","o","r"," ","&"," ">>

\* 'const Tensor & '
s_type_const_Tensor_ref == <<"c","o","n","s","t"," ","T","e","n","s","o",
  "r"," ","&"," ">>

\* 'int64_t '
s_type_int64_t == <<"i","n","t","6","4","_","t"," ">>

\* ------------------------------------------------------------------ state

VARIABLES
  sig,       \* a signature text, as a line of either source gives it
  edits,     \* the number of edits that made sig of a base signature
  lastEdit,  \* the kind of the last edit, "none" before any
  phase,     \* which projections of sig are computed
  prev,      \* the text and the key before the last edit
  declkey,   \* the key of sig read as a declaration
  ovkey,     \* the key of sig read as an override
  roundtrip  \* sig emitted whole from its two trees

VARIABLES
  osig,      \* the declaration of an out-variant function
  oshape,    \* its name, the arity of its return type and its parameters
  owrapped   \* what get_xla_wrapper made of it

VARIABLES
  args,            \* the three files generate() reads, as their lines
  fn_autograd_xla, \* _FN_AUTOGRAD_XLA
  pc,              \* where generate() is
  line,            \* the index of the loop generate() is in
  fndefs,          \* extract_functions: the functions found so far
  errors,          \* extract_functions: the errors found so far
  overrides,       \* the override table, a dict in insertion order
  fgens,           \* the function records
  generated,       \* the listings and the two registration tables
  files,           \* the two output files, None while not written
  stderr,          \* what was reported on the error stream
  failed           \* what ended the run before its end, "none" if nothing

VARIABLES
  bsig,      \* the declaration of a function
  bshape,    \* its return type, its name and its parameters
  bphase,    \* what was made of it so far
  bgen,      \* what get_xla_wrapper made of it
  bref       \* what get_reference_param picked of its parameters

sigvars == <<sig, edits, lastEdit, phase, prev, declkey, ovkey, roundtrip>>

outvars == <<osig, oshape, owrapped>>

genvars ==
  <<args, fn_autograd_xla, pc, line, fndefs, errors, overrides, fgens, generated,
    files, stderr, failed>>

bridgevars == <<bsig, bshape, bphase, bgen, bref>>

vars == <<sigvars, outvars, genvars, bridgevars>>

NoKey == [accepted |-> FALSE, fndef |-> <<>>, key |-> <<>>]

NoRoundtrip == [verbatim |-> <<>>, reduced |-> <<>>]

NoGenerated ==
  [functions |-> <<>>, hfunctions |-> <<>>, aten_code |-> <<>>,
   autogradxla_code |-> <<>>, overridden |-> {}]

NoFiles == [h |-> None, cpp |-> None]

\* No signature is under edit.
SigIdle ==
  /\ sig = <<>>
  /\ edits = 0
  /\ lastEdit = "none"
  /\ phase = "idle"
  /\ prev = [sig |-> <<>>, key |-> <<>>]
  /\ declkey = <<>>
  /\ ovkey = NoKey
  /\ roundtrip = NoRoundtrip

\* No out-variant is being wrapped.
OutIdle ==
  /\ osig = <<>>
  /\ oshape = [name |-> <<>>, outputs |-> 0, params |-> 0]
  /\ owrapped = [wrapped |-> FALSE, raised |-> FALSE, code |-> None]

\* generate() does not run.
GenIdle ==
  /\ args = [typedef |-> <<>>, xlatype |-> <<>>, functions |-> <<>>]
  /\ fn_autograd_xla = FN_AUTOGRAD_XLA
  /\ pc = "idle"
  /\ line = 0
  /\ fndefs = <<>>
  /\ errors = <<>>
  /\ overrides = NoOverrides
  /\ fgens = <<>>
  /\ generated = NoGenerated
  /\ files = NoFiles
  /\ stderr = <<>>
  /\ failed = "none"

NoBridge ==
  [raised |-> FALSE, code |-> None, func |-> <<>>, rwsig |-> <<>>, cppsig |-> <<>>,
   mapsig |-> <<>>, required |-> FALSE, overridden |-> FALSE]

NoReference == [fnopts |-> FuncOpts, picked |-> "none", name |-> <<>>]

\* No declaration is being bridged.
BridgeIdle ==
  /\ bsig = <<>>
  /\ bshape = [rtype |-> <<>>, name |-> <<>>, params |-> <<>>]
  /\ bphase = "idle"
  /\ bgen = NoBridge
  /\ bref = NoReference

\* ------------------------------------------------- signatures under edit

SigInit ==
  /\ sig \in BaseSignatures
  /\ edits = 0
  /\ lastEdit = "none"
  /\ phase = "text"
  /\ prev = [sig |-> <<>>, key |-> <<>>]
  /\ declkey = <<>>
  /\ ovkey = NoKey
  /\ roundtrip = NoRoundtrip
  /\ OutIdle
  /\ GenIdle
  /\ BridgeIdle

\* One edit of the signature, which stays a signature.
Edit(kind) ==
  /\ phase = "emitted"
  /\ edits < MaxEdits
  /\ \E new \in EditsOf(sig, kind) :
       /\ new # sig
       /\ XPARSER(new).ok
       /\ sig' = new
  /\ edits' = edits + 1
  /\ lastEdit' = kind
  /\ phase' = "text"
  /\ prev' = [sig |-> sig, key |-> declkey]
  /\ UNCHANGED <<declkey, ovkey, roundtrip, outvars, genvars, bridgevars>>

\* get_xla_wrapper's mapsig of the declaration sig, as
\* generate_registrations keys it.
MapKey ==
  /\ phase = "text"
  /\ declkey' = DeclarationKey(sig)
  /\ phase' = "keyed"
  /\ UNCHANGED <<sig, edits, lastEdit, prev, ovkey, roundtrip, outvars, genvars, bridgevars>>

\* parse_local_overrides on the override declaration sig.
ParseOverride ==
  /\ phase = "keyed"
  /\ ovkey' = OverrideKey(sig)
  /\ phase' = "overridden"
  /\ UNCHANGED <<sig, edits, lastEdit, prev, declkey, roundtrip, outvars, genvars, bridgevars>>

RoundTripOf(x, orig_sig) ==
  [verbatim |-> rewrite_sig(x, orig_sig), reduced |-> rewrite_sig(Reduced(x), orig_sig)]

\* rewrite_sig with its default decision function, on both trees of sig.
RewriteSig ==
  /\ phase = "overridden"
  /\ roundtrip' = RoundTripOf(XPARSER(sig).tree, sig)
  /\ phase' = "emitted"
  /\ UNCHANGED <<sig, edits, lastEdit, prev, declkey, ovkey, outvars, genvars, bridgevars>>

SigNext ==
  \/ \E kind \in EditKinds : Edit(kind)
  \/ MapKey
  \/ ParseOverride
  \/ RewriteSig

SigSpec == SigInit /\ [][SigNext]_vars

\* ---------------------------------------------------- out-variant wrappers

\* The return type of an out-variant with n outputs: a reference for
\* n = 0, a tuple of n references otherwise.
OutReturnType(n) ==
  IF n = 0 THEN s_Tensor_ref
  ELSE Cat(<<s_std_tuple, <<"<">>, Join(<<",">>, [i \in 1..n |-> s_Tensor_ref]), <<">">> >>)

OutNames == {s_abs_out, s_topk_out}

OutParamTypes == {s_type_Tensor_ref, s_type_const_Tensor_ref, s_type_int64_t}

\* The i-th parameter, counted from 0: p0, p1, ...
OutParamName(i) == <<"p">> \o Str(i)

\* The declaration of topk_out: two outputs and seven parameters (Tensor,
\* Tensor, Tensor, int64_t, int64_t, bool, bool), named by their positions.
TopkOutDecl == <<"s","t","d",":",":","t","u","p","l","e","<","T","e","n",
  "s","o","r"," ","&",",","T","e","n","s","o","r"," ","&",">"," ","t","o",
  "p","k","_","o","u","t","(","T","e","n","s","o","r"," ","&"," ","p","0",
  ","," ","T","e","n","s","o","r"," ","&"," ","p","1",","," ","c","o","n",
  "s","t"," ","T","e","n","s","o","r"," ","&"," ","p","2",","," ","i","n",
  "t","6","4","_","t"," ","p","3",","," ","i","n","t","6","4","_","t"," ",
  "p","4",","," ","b","o","o","l"," ","p","5",","," ","b","o","o","l"," ",
  "p","6",")">>

OutInit ==
  /\ \/ \E name \in OutNames, n \in 0..MaxOutputs, type \in OutParamTypes :
          /\ osig = Cat(<<OutReturnType(n), <<" ">>, name, <<"(">>, type,
                          OutParamName(0), <<")">> >>)
          /\ oshape = [name |-> name, outputs |-> n, params |-> 1]
     \/ /\ osig = TopkOutDecl
        /\ oshape = [name |-> s_topk_out, outputs |-> 2, params |-> 7]
  /\ owrapped = [wrapped |-> FALSE, raised |-> FALSE, code |-> None]
  /\ SigIdle
  /\ GenIdle
  /\ BridgeIdle

\* The declaration takes one more parameter.
AddOutParam ==
  /\ oshape.params < MaxParams
  /\ \E type \in OutParamTypes :
       osig' = Cat(<<SubSeq(osig, 1, Len(osig) - 1), s_comma_space, type,
                     OutParamName(oshape.params), <<")">> >>)
  /\ oshape' = [oshape EXCEPT !.params = @ + 1]
  /\ owrapped' = [wrapped |-> FALSE, raised |-> FALSE, code |-> None]
  /\ UNCHANGED <<sigvars, genvars, bridgevars>>

WrappedOut(fgen) == [wrapped |-> TRUE, raised |-> fgen.raised, code |-> fgen.code]

\* get_xla_wrapper on the declaration, which _FN_OUT names.
WrapOut ==
  /\ ~owrapped.wrapped
  /\ owrapped' = WrappedOut(get_xla_wrapper(FuncDef(osig, <<>>, TRUE, FALSE),
                                            FunctionsHeader))
  /\ UNCHANGED <<osig, oshape, sigvars, genvars, bridgevars>>

OutNext == AddOutParam \/ WrapOut

OutSpec == OutInit /\ [][OutNext]_vars

\* ------------------------------------------------------------- generate()

\* The elements of s at the indices in ix, in the order of s.
RECURSIVE Pick(_, _, _)
Pick(s, ix, i) ==
  IF i > Len(s) THEN <<>>
  ELSE (IF i \in ix THEN <<s[i]>> ELSE <<>>) \o Pick(s, ix, i + 1)

\* The files of at most n of the lines s may hold.
FilesOf(s, n) == {Pick(s, ix, 1) : ix \in {x \in SUBSET (1..Len(s)) : Cardinality(x) <= n}}

\* _FN_AUTOGRAD_XLA as the script has it, and with a function name added
\* to it, which its comment (line 84) says it takes as well as a mapsig.
AutogradSets == {FN_AUTOGRAD_XLA, FN_AUTOGRAD_XLA \cup {s_relu}}

Report(what, about) == [what |-> what, about |-> about]

Init ==
  /\ \E typedef \in FilesOf(DeclarationLines, MaxDecls),
        decls \in FilesOf(OverrideDeclarations, MaxOverrides) :
       args = [typedef |-> typedef,
               xlatype |-> <<ClassLine>> \o Cat(decls),
               functions |-> FunctionsHeader]
  /\ fn_autograd_xla \in AutogradSets
  /\ pc = "extract"
  /\ line = 1
  /\ fndefs = <<>>
  /\ errors = <<>>
  /\ overrides = NoOverrides
  /\ fgens = <<>>
  /\ generated = NoGenerated
  /\ files = NoFiles
  /\ stderr = <<>>
  /\ failed = "none"
  /\ SigIdle
  /\ OutIdle
  /\ BridgeIdle

Extracted(found) ==
  /\ fndefs' = fndefs \o found.functions
  /\ errors' = errors \o found.errors
  /\ stderr' = stderr \o [i \in 1..Len(found.errors) |-> Report("error", found.errors[i])]

\* extract_functions: one turn of its loop over the lines.
ExtractLine ==
  /\ pc = "extract"
  /\ line <= Len(args.typedef)
  /\ Extracted(ExtractOne(DeclOfLine(args.typedef[line].text), args.typedef[line].fields))
  /\ line' = line + 1
  /\ UNCHANGED <<args, fn_autograd_xla, pc, overrides, fgens, generated, files, failed>>
  /\ UNCHANGED <<sigvars, outvars, bridgevars>>

\* generate: the report of extract_functions and assert len(errors) == 0.
CheckErrors ==
  /\ pc = "extract"
  /\ line > Len(args.typedef)
  /\ stderr' = Append(stderr, Report("extracted", <<Len(fndefs), Len(errors)>>))
  /\ pc' = IF Len(errors) = 0 THEN "overrides" ELSE "aborted"
  /\ failed' = IF Len(errors) = 0 THEN "none" ELSE "errors"
  /\ UNCHANGED <<args, fn_autograd_xla, line, fndefs, errors, overrides, fgens,
                 generated, files>>
  /\ UNCHANGED <<sigvars, outvars, bridgevars>>

OverridesParsed(read) ==
  IF read.raised
    THEN /\ pc' = "aborted"
         /\ failed' = "overrides"
         /\ UNCHANGED <<overrides, stderr>>
    ELSE /\ pc' = "wrap"
         /\ failed' = "none"
         /\ overrides' = read.overrides
         /\ stderr' = Append(stderr, Report("overrides", Len(read.overrides)))

\* generate: parse_local_overrides and its report.
ParseOverrides ==
  /\ pc = "overrides"
  /\ OverridesParsed(parse_local_overrides(args.xlatype))
  /\ line' = 1
  /\ UNCHANGED <<args, fn_autograd_xla, fndefs, errors, fgens, generated, files>>
  /\ UNCHANGED <<sigvars, outvars, bridgevars>>

Wrapped(ts, fgen) ==
  IF fgen.raised
    THEN /\ stderr' = Append(stderr, Report("failed", ts))
         /\ UNCHANGED fgens
    ELSE /\ fgens' = Append(fgens, fgen)
         /\ UNCHANGED stderr

\* generate: one turn of the loop over fndefs, get_xla_wrapper in its try.
Wrap ==
  /\ pc = "wrap"
  /\ line <= Len(fndefs)
  /\ Wrapped(fndefs[line], get_xla_wrapper(fndefs[line], args.functions))
  /\ line' = line + 1
  /\ UNCHANGED <<args, fn_autograd_xla, pc, fndefs, errors, overrides, generated,
                 files, failed>>
  /\ UNCHANGED <<sigvars, outvars, bridgevars>>

Listed(functions, hfunctions, regs) ==
  /\ generated' = [functions |-> functions, hfunctions |-> hfunctions,
                   aten_code |-> regs.aten_code,
                   autogradxla_code |-> regs.autogradxla_code,
                   overridden |-> regs.overridden]
  /\ pc' = IF regs.raised THEN "aborted" ELSE "check"
  /\ failed' = IF regs.raised THEN "registrations" ELSE "none"

\* generate: the report of the loop, generate_functions,
\* generate_class_functions and generate_registrations.
Generate ==
  /\ pc = "wrap"
  /\ line > Len(fndefs)
  /\ stderr' = Append(stderr, Report("generated", Len(fgens)))
  /\ Listed(generate_functions(fgens, overrides, fn_autograd_xla),
            generate_class_functions(fgens, overrides, fn_autograd_xla),
            generate_registrations(fgens, overrides, fn_autograd_xla))
  /\ UNCHANGED <<args, fn_autograd_xla, line, fndefs, errors, overrides, fgens, files>>
  /\ UNCHANGED <<sigvars, outvars, bridgevars>>

\* The assert on check_overrides left out: the run goes on to its outputs.
Checked_NoAssert(misses) ==
  /\ stderr' = stderr \o [i \in 1..Len(misses) |-> Report("missed", misses[i])]
  /\ pc' = "write"
  /\ failed' = "none"

Checked(misses) ==
  /\ stderr' = stderr \o [i \in 1..Len(misses) |-> Report("missed", misses[i])]
  /\ pc' = IF misses = <<>> THEN "write" ELSE "aborted"
  /\ failed' = IF misses = <<>> THEN "none" ELSE "check"

\* generate: assert check_overrides(overrides, overridden).
CheckOverrides ==
  /\ pc = "check"
  /\ Checked(check_overrides(overrides, generated.overridden))
  /\ UNCHANGED <<args, fn_autograd_xla, line, fndefs, errors, overrides, fgens,
                 generated, files>>
  /\ UNCHANGED <<sigvars, outvars, bridgevars>>

\* generate: the two prints into the output files.
WriteOutputs ==
  /\ pc = "write"
  /\ files' = [h |-> HeaderFile(generated.hfunctions),
               cpp |-> CppFile(generated.functions, RegistrationsText(generated))]
  /\ pc' = "done"
  /\ UNCHANGED <<args, fn_autograd_xla, line, fndefs, errors, overrides, fgens,
                 generated, stderr, failed>>
  /\ UNCHANGED <<sigvars, outvars, bridgevars>>

Next ==
  \/ ExtractLine
  \/ CheckErrors
  \/ ParseOverrides
  \/ Wrap
  \/ Generate
  \/ CheckOverrides
  \/ WriteOutputs

Spec == Init /\ [][Next]_vars

\* ------------------------------------------------- signature properties

\* The projections of sig that are computed in the current phase.
Keyed == phase \in {"keyed", "overridden", "emitted"}

Overridden == phase \in {"overridden", "emitted"}

Emitted == phase = "emitted"

RECURSIVE Trim(_)
\* The text without its leading and trailing whitespace.
Trim(s) ==
  IF s = <<>> THEN s
  ELSE IF s[1] \in WSChars THEN Trim(Tail(s))
  ELSE IF s[Len(s)] \in WSChars THEN Trim(SubSeq(s, 1, Len(s) - 1))
  ELSE s

IsProperPrefix(p, s) == Len(p) < Len(s) /\ SubSeq(s, 1, Len(p)) = p

\* C7: a signature text that both the declaration path and the override
\* path accept gets the same map key on both paths.
C7_SameKeyOnBothPaths ==
  (Overridden /\ ovkey.accepted) => ovkey.key = declkey

C9_RoundTripBothTrees ==
  Emitted => (roundtrip.verbatim = sig /\ roundtrip.reduced = sig)

\* C9 (amended): the verbatim tree gives back the signature without its
\* leading and trailing whitespace; the reduced tree gives back a proper
\* prefix of that text, which ends with its last retained token and so
\* never holds the closing parenthesis.
C9_RoundTripVerbatim ==
  Emitted =>
    /\ roundtrip.verbatim = Trim(sig)
    /\ IsProperPrefix(roundtrip.reduced, roundtrip.verbatim)
    /\ roundtrip.reduced # <<>>
    /\ roundtrip.reduced[Len(roundtrip.reduced)] \notin {")", " ", "\t"}

\* An edited signature was emitted whole and came back as written.
C9_Witness ==
  /\ Emitted
  /\ edits > 0
  /\ roundtrip.verbatim = sig
  /\ IsProperPrefix(roundtrip.reduced, sig)

\* ------------------------------------------------ out-variant properties

\* The k-th line of the text s, given where its lines start and end.
LineOf(s, starts, ends, k) ==
  LET from == CHOOSE a \in starts : Cardinality({b \in starts : b < a}) = k - 1
      to == CHOOSE e \in ends : e >= from /\ \A g \in ends : g >= from => e <= g
  IN  SubSeq(s, from, to - 1)

\* The lines of a text, without their line ends.
SplitLines(s) ==
  LET ends == {j \in 1..Len(s) : s[j] = "\n"}
      starts == {j \in 1..Len(s) : j = 1 \/ s[j - 1] = "\n"}
  IN  [k \in 1..Cardinality(starts) |-> LineOf(s, starts, ends \cup {Len(s) + 1}, k)]

\* The write-back statements of a body, in the order they are written.
WriteBacks(code) ==
  SelectSeq(SplitLines(code), LAMBDA l : StartsAt(l, s_XlaUpdateTensors, 1))

\* The return statements of a body.
Returns(code) == SelectSeq(SplitLines(code), LAMBDA l : StartsAt(l, s_return, 1))

\* The statement that copies src into dest.
WriteBack(dest, src) ==
  Cat(<<s_XlaUpdateTensors, dest, s_update_sep, src, <<"}",","," ","{","0","}",")",";">> >>)

\* Element i of the temporary result of the function called.
Element(i) == Cat(<<s_std_get, Str(i), s_get_of, oshape.name, s_tmp_suffix, <<")">> >>)

\* The parameters 0..n-1, in order.
FirstParams(n) == Join(s_comma_space, [i \in 1..n |-> OutParamName(i - 1)])

OutGenerated == owrapped.wrapped /\ ~owrapped.raised

\* C10: the body generated for an out-variant function that returns a tuple
\* of N elements has exactly N write-back statements, the i-th copies
\* element i of the result into parameter i, and it returns the tuple of the
\* parameters 0..N-1 in order; a function that returns no tuple has one
\* write-back, of the whole result into parameter 0, and returns parameter 0.
C10_OutWriteBacks ==
  OutGenerated =>
    LET copies == WriteBacks(owrapped.code)
        rets   == Returns(owrapped.code)
        N      == oshape.outputs
    IN  IF N = 0
          THEN /\ copies = <<WriteBack(OutParamName(0), oshape.name \o s_tmp_suffix)>>
               /\ rets = <<Cat(<<s_return, OutParamName(0), <<";">> >>)>>
          ELSE /\ Len(copies) = N
               /\ \A i \in 1..N : copies[i] = WriteBack(OutParamName(i - 1), Element(i - 1))
               /\ Len(rets) = 1
               /\ StartsAt(rets[1], s_return \o s_std_tuple \o <<"<">>, 1)
               /\ EndsWith(rets[1], Cat(<< <<">","(">>, FirstParams(N), <<")",";">> >>))

\* A body is generated for a function that returns a tuple of two or more
\* outputs and takes more parameters than it has outputs.
C10_Witness ==
  /\ OutGenerated
  /\ oshape.outputs >= 2
  /\ oshape.params > oshape.outputs
  /\ Len(WriteBacks(owrapped.code)) = oshape.outputs

\* ------------------------------------------------ generate() properties

\* The two registration tables are built.
TablesBuilt == pc \in {"check", "write", "done"} \/ failed = "check"

\* The override table is checked against the keys bound.
OverridesChecked == pc \in {"write", "done"} \/ failed = "check"

\* A text without its space characters.
Stripped(s) == SelectSeq(s, LAMBDA c : c # " ")

Lowered(r) == r.dispatch /\ ~r.math

HasOverride(r) == \E k \in 1..Len(overrides) : overrides[k].key = Stripped(r.mapsig)

InDualSet(r) == r.mapsig \in fn_autograd_xla \/ r.func \in fn_autograd_xla

RequiredAsStated(r) == Lowered(r) \/ HasOverride(r) \/ InDualSet(r)

\* C1: registration of a function record is required exactly when its
\* declaration is flagged dispatch and not math, or its key without spaces
\* is a key of the override table, or its map signature or its name is in
\* _FN_AUTOGRAD_XLA; the wrappers listed in the output are the bodies of
\* the records it is required for.
C1_RequiredIff ==
  TablesBuilt =>
    \A i \in 1..Len(fgens) :
      /\ requires_registration(fgens[i], overrides, fn_autograd_xla)
           <=> RequiredAsStated(fgens[i])
      /\ fgens[i].code # None =>
           (Contains(generated.functions, fgens[i].code \o s_two_newlines)
              <=> RequiredAsStated(fgens[i]))

\* Of two records, one is required by its override alone and its body is
\* listed, the other is flagged dispatch and math and is not required.
C1_Witness ==
  /\ TablesBuilt
  /\ \E i, j \in 1..Len(fgens) :
       /\ HasOverride(fgens[i]) /\ ~Lowered(fgens[i]) /\ ~InDualSet(fgens[i])
       /\ fgens[i].code # None
       /\ Contains(generated.functions, fgens[i].code)
       /\ fgens[j].dispatch /\ fgens[j].math /\ ~RequiredAsStated(fgens[j])

\* The lines of a registration table that install a function.
Installs(table) ==
  SelectSeq(SplitLines(table), LAMBDA l : StartsAt(l, s_impl_UNBOXED, 1))

\* The statement that installs fn for the record r.
Install(r, fn) ==
  Cat(<<s_impl_UNBOXED, SecondPart(BeforeFirst(r.aten_sig, <<"(">>), s_colons),
        s_static_cast_fn, Overload(r.funsig), s_addr_of, fn, <<")",")",";">> >>)

\* The statement l installs a function for the record r.
IsInstallOf(l, r) ==
  StartsAt(l, SubSeq(Install(r, <<>>), 1, Len(Install(r, <<>>)) - 3), 1)

\* The statements of a table that install a function for the record r.
InstallsOf(r, table) ==
  SelectSeq(Installs(table), LAMBDA l : IsInstallOf(l, r))

InstallsInBoth(r) ==
  InstallsOf(r, generated.aten_code) \o InstallsOf(r, generated.autogradxla_code)

C3_TableBySetMembership ==
  TablesBuilt =>
    \A i \in 1..Len(fgens) :
      InstallsInBoth(fgens[i]) # <<>> =>
        IF InDualSet(fgens[i])
          THEN /\ Len(InstallsOf(fgens[i], generated.autogradxla_code)) = 1
               /\ InstallsOf(fgens[i], generated.aten_code) = <<>>
          ELSE /\ Len(InstallsOf(fgens[i], generated.aten_code)) = 1
               /\ InstallsOf(fgens[i], generated.autogradxla_code) = <<>>

\* The reports of one kind on the error stream, in order.
Reports(what) == SelectSeq(stderr, LAMBDA r : r.what = what)

\* The entries of the override table no record has the key of.
Unbound ==
  SelectSeq(overrides,
            LAMBDA item : ~\E i \in 1..Len(fgens) :
                             Stripped(fgens[i].mapsig) = Stripped(item.key))

\* C4: once the tables are built the run fails exactly when an entry of the
\* override table has a key no record has, every such entry is reported,
\* and the keys bound are those of the entries some record has the key of,
\* whatever its flags, its body or the blacklist.
C4_UnusedOverridesFail ==
  OverridesChecked =>
    /\ failed = "check" <=> Unbound # <<>>
    /\ Reports("missed") = [k \in 1..Len(Unbound) |-> Report("missed", Unbound[k])]
    /\ generated.overridden =
         {Stripped(overrides[k].key) :
            k \in {n \in 1..Len(overrides) :
                     \E i \in 1..Len(fgens) :
                       Stripped(fgens[i].mapsig) = Stripped(overrides[n].key)}}

\* The run fails on two unused overrides, both reported, after it made a
\* record.
C4_Witness ==
  /\ failed = "check"
  /\ fgens # <<>>
  /\ Len(Reports("missed")) = 2

\* C5: a function whose wrapper raised does not make the run fail: no
\* override the run fails on has the key of such a function.
C5_WrapperFailureNotFatal ==
  failed = "check" =>
    \A f \in 1..Len(Reports("failed")), m \in 1..Len(Reports("missed")) :
      Stripped(Reports("missed")[m].about.key)
        # Stripped(create_map_sig(XPARSER(Reports("failed")[f].about.cpp_sig).tree,
                                  Reports("failed")[f].about.cpp_sig))

\* The lines extract_functions has read.
Scanned == SubSeq(args.typedef, 1, IF pc = "extract" THEN line - 1 ELSE Len(args.typedef))

\* The declarations of the lines read that are declarations.
Declared ==
  LET decls == SelectSeq(Scanned, LAMBDA l : DeclOfLine(l.text) # None)
  IN  [i \in 1..Len(decls) |-> DeclOfLine(decls[i].text)]

\* C6: of the declarations that do not parse, those that name Tensor are
\* the errors and the others are neither errors nor functions; the run
\* fails on the errors only after all lines are read, and exactly when
\* there is an error.
C6_BatchErrors ==
  /\ errors = SelectSeq(Declared, LAMBDA d : ~XPARSER(d).ok /\ HasWord(d, s_Tensor))
  /\ [i \in 1..Len(fndefs) |-> fndefs[i].cpp_sig]
       = SelectSeq(Declared, LAMBDA d : XPARSER(d).ok)
  /\ Reports("error") = [i \in 1..Len(errors) |-> Report("error", errors[i])]
  /\ failed = "errors" => Scanned = args.typedef /\ pc = "aborted"
  /\ pc # "extract" => (failed = "errors" <=> errors # <<>>)

\* The run fails on two errors, both found.
C6_Witness ==
  /\ failed = "errors"
  /\ Len(errors) = 2
  /\ Len(args.typedef) = 2

\* --------------------------------------------------- topk_out properties

\* The wrapper of the declaration of topk_out is generated.
TopkGenerated == osig = TopkOutDecl /\ OutGenerated

\* The statements of a body that assign the temporary result.
Calls(code) ==
  SelectSeq(SplitLines(code),
            LAMBDA l : StartsAt(l, Cat(<<s_auto, oshape.name, s_tmp_suffix, s_assign>>), 1))

\* The statement that assigns the call of AtenXlaType::topk on the
\* parameters from..6 to the temporary result.
TopkCall(from) ==
  Cat(<<s_auto, s_topk_out, s_tmp_suffix, s_assign, s_AtenXlaType, <<"t","o","p","k">>,
        <<"(">>, Join(s_comma_space, [i \in 1..(7 - from) |-> OutParamName(from + i - 1)]),
        <<")",";">> >>)

\* What the body of topk_out does apart from the call: it writes element 0
\* back into parameter 0 and element 1 into parameter 1, and returns the
\* tuple of these two parameters.
TopkWritesBack ==
  /\ WriteBacks(owrapped.code)
       = <<WriteBack(OutParamName(0), Element(0)), WriteBack(OutParamName(1), Element(1))>>
  /\ Len(Returns(owrapped.code)) = 1
  /\ StartsAt(Returns(owrapped.code)[1], s_return \o s_std_tuple \o <<"<">>, 1)
  /\ EndsWith(Returns(owrapped.code)[1], Cat(<< <<">","(">>, FirstParams(2), <<")",";">> >>))

\* C11 (as the spec states it): the body of topk_out calls topk with the
\* trailing 4 of its seven parameters, writes back into parameters 0 and 1
\* and returns the tuple of those two.
C11_TopkTrailingFour ==
  TopkGenerated => Calls(owrapped.code) = <<TopkCall(3)>> /\ TopkWritesBack

\* C11 (amended): the body of topk_out calls topk with the 5 parameters
\* that follow its two outputs, writes back into parameters 0 and 1 and
\* returns the tuple of those two.
C11_TopkTrailingFive ==
  TopkGenerated => Calls(owrapped.code) = <<TopkCall(2)>> /\ TopkWritesBack

\* The wrapper of topk_out is generated and calls topk.
C11_Witness ==
  /\ TopkGenerated
  /\ Len(Calls(owrapped.code)) = 1
  /\ Contains(owrapped.code, s_AtenXlaType \o <<"t","o","p","k","(">>)

\* ---------------------------------------------------- listing properties

\* The class-member declarations of the record r in the declarations
\* listing.
DeclarationsOf(r) ==
  SelectSeq(SplitLines(generated.hfunctions),
            LAMBDA l : l = Cat(<<s_static_decl, r.rwsig, <<";">> >>))

\* The body of the record r is in the definitions listing.
BodyListed(r) ==
  r.code # None /\ Contains(generated.functions, r.code \o s_two_newlines)

\* C12 (as the spec states it): a record has one class-member declaration,
\* and its body in the definitions listing, exactly when it has an install
\* statement in one of the two tables; it has no declaration otherwise.
C12_DeclaredIffInstalled ==
  TablesBuilt =>
    \A i \in 1..Len(fgens) :
      IF InstallsInBoth(fgens[i]) # <<>>
        THEN Len(DeclarationsOf(fgens[i])) = 1 /\ BodyListed(fgens[i])
        ELSE DeclarationsOf(fgens[i]) = <<>> /\ ~BodyListed(fgens[i])

\* C12 (amended): a record has one class-member declaration exactly when
\* its body is in the definitions listing, and then it has an install
\* statement; an installed record without a declaration is a record without
\* a body that is installed as its override; the declarations listing has
\* no other line.
C12_DeclaredIffBody ==
  TablesBuilt =>
    /\ \A i \in 1..Len(fgens) :
         /\ Len(DeclarationsOf(fgens[i])) = IF BodyListed(fgens[i]) THEN 1 ELSE 0
         /\ BodyListed(fgens[i]) => Len(InstallsInBoth(fgens[i])) = 1
         /\ (InstallsInBoth(fgens[i]) # <<>> /\ ~BodyListed(fgens[i])) =>
              /\ fgens[i].code = None
              /\ HasOverride(fgens[i])
              /\ InstallsInBoth(fgens[i])
                   = <<Install(fgens[i], s_AtenXlaType \o fgens[i].func)>>
    /\ Len(SplitLines(generated.hfunctions))
         = Cardinality({i \in 1..Len(fgens) : BodyListed(fgens[i])})

\* Of two records one is declared, listed and installed, the other is
\* installed as its override and has no body and no declaration.
C12_Witness ==
  /\ TablesBuilt
  /\ \E i, j \in 1..Len(fgens) :
       /\ Len(DeclarationsOf(fgens[i])) = 1
       /\ BodyListed(fgens[i])
       /\ InstallsInBoth(fgens[i]) # <<>>
       /\ fgens[j].code = None
       /\ InstallsInBoth(fgens[j]) # <<>>
       /\ DeclarationsOf(fgens[j]) = <<>>

\* ------------------------------------------------------ bridged declarations

MaxBridgeParams == 3

\* 'const Tensor &'
s_rtype_const_Tensor_ref == <<"c","o","n","s","t"," ","T","e","n","s","o",
  "r"," ","&">>

\* 'std::tuple<Tensor &,Tensor>'
s_rtype_tuple_ref_value == <<"s","t","d",":",":","t","u","p","l","e","<",
  "T","e","n","s","o","r"," ","&",",","T","e","n","s","o","r",">">>

\* 'const Scalar &'
s_rtype_const_Scalar_ref == <<"c","o","n","s","t"," ","S","c","a","l","a",
  "r"," ","&">>

\* 'const c10::optional<Tensor> & '
s_type_const_optional_Tensor_ref == <<"c","o","n","s","t"," ","c","1","0",
  ":",":","o","p","t","i","o","n","a","l","<","T","e","n","s","o","r",">",
  " ","&"," ">>

\* 'TensorList '
s_type_TensorList == <<"T","e","n","s","o","r","L","i","s","t"," ">>

\* 'const TensorOptions & '
s_type_const_TensorOptions_ref == <<"c","o","n","s","t"," ","T","e","n","s",
  "o","r","O","p","t","i","o","n","s"," ","&"," ">>

\* 'Scalar '
s_type_Scalar == <<"S","c","a","l","a","r"," ">>

\* '=1'
s_defval_1 == <<"=","1">>

\* 'abs'
s_abs == <<"a","b","s">>

\* '_th_eq'
s__th_eq == <<"_","t","h","_","e","q">>

\* 'cudnn_is_acceptable'
s_cudnn_is_acceptable == <<"c","u","d","n","n","_","i","s","_","a","c","c",
  "e","p","t","a","b","l","e">>

\* 'slice'
s_slice == <<"s","l","i","c","e">>

\* 'other'
s_other == <<"o","t","h","e","r">>

\* 'out'
s_out == <<"o","u","t">>

\* 'dim'
s_dim == <<"d","i","m">>

\* 'start'
s_start == <<"s","t","a","r","t">>

\* 'end'
s_end == <<"e","n","d">>

\* 'step'
s_step == <<"s","t","e","p">>

\* 'max_pool2d'
s_max_pool2d == <<"m","a","x","_","p","o","o","l","2","d">>

\* 'IntArrayRef '
s_type_IntArrayRef == <<"I","n","t","A","r","r","a","y","R","e","f"," ">>

\* 'bool '
s_type_bool == <<"b","o","o","l"," ">>

\* 'kernel_size'
s_kernel_size == <<"k","e","r","n","e","l","_","s","i","z","e">>

\* 'stride'
s_stride == <<"s","t","r","i","d","e">>

\* 'padding'
s_padding == <<"p","a","d","d","i","n","g">>

\* 'dilation'
s_dilation == <<"d","i","l","a","t","i","o","n">>

\* 'ceil_mode'
s_ceil_mode == <<"c","e","i","l","_","m","o","d","e">>

\* A parameter of a declaration: its type, its name and its default value.
BridgeParam(type, name, defval) == [type |-> type, name |-> name, defval |-> defval]

\* The text of the declaration of a shape.
BridgeDecl(shape) ==
  Cat(<<shape.rtype, <<" ">>, shape.name, <<"(">>,
        Join(shape.sep, [i \in 1..Len(shape.params) |->
                           Cat(<<shape.params[i].type, shape.params[i].name,
                                 shape.params[i].defval>>)]),
        <<")">> >>)

BridgeReturnTypes ==
  {s_Tensor, s_Tensor_ref, s_rtype_const_Tensor_ref, s_rtype_tuple_ref_value,
   s_rtype_const_Scalar_ref}

\* The types a parameter is drawn from, each with its default value.
BridgeParamKinds ==
  {<<s_type_Tensor_ref, <<>> >>, <<s_type_const_Tensor_ref, <<>> >>,
   <<s_type_const_optional_Tensor_ref, <<>> >>, <<s_type_TensorList, <<>> >>,
   <<s_type_const_TensorOptions_ref, <<>> >>, <<s_type_int64_t, s_defval_1>>}

\* The separators of the parameters of a declaration the policy tables name.
BridgeSeparators == {s_comma_space, <<",">>}

\* The declarations of functions the policy tables name: abs_out of _FN_OUT,
\* _th_eq of _FN_REMAP, slice of _FUNCTION_OPTIONS, max_pool2d of
\* _FN_AUTOGRAD_XLA and cudnn_is_acceptable of _FN_BLACKLIST_REGEX.
PolicyShapes ==
  {[rtype |-> s_Tensor_ref, name |-> s_abs_out,
    params |-> <<BridgeParam(s_type_Tensor_ref, s_out, <<>>),
                 BridgeParam(s_type_const_Tensor_ref, s_self, <<>>)>>],
   [rtype |-> s_Tensor, name |-> s__th_eq,
    params |-> <<BridgeParam(s_type_const_Tensor_ref, s_self, <<>>),
                 BridgeParam(s_type_Scalar, s_other, <<>>)>>],
   [rtype |-> s_Tensor, name |-> s_slice,
    params |-> <<BridgeParam(s_type_const_Tensor_ref, s_self, <<>>),
                 BridgeParam(s_type_int64_t, s_dim, <<>>),
                 BridgeParam(s_type_int64_t, s_start, <<>>),
                 BridgeParam(s_type_int64_t, s_end, <<>>),
                 BridgeParam(s_type_int64_t, s_step, <<>>)>>],
   [rtype |-> s_Tensor, name |-> s_max_pool2d,
    params |-> <<BridgeParam(s_type_const_Tensor_ref, s_self, <<>>),
                 BridgeParam(s_type_IntArrayRef, s_kernel_size, <<>>),
                 BridgeParam(s_type_IntArrayRef, s_stride, <<>>),
                 BridgeParam(s_type_IntArrayRef, s_padding, <<>>),
                 BridgeParam(s_type_IntArrayRef, s_dilation, <<>>),
                 BridgeParam(s_type_bool, s_ceil_mode, <<>>)>>],
   [rtype |-> s_Tensor, name |-> s_cudnn_is_acceptable,
    params |-> <<BridgeParam(s_type_const_Tensor_ref, s_self, <<>>)>>]}

\* The policies get_reference_param is asked with: none, and one that names
\* its reference parameter.
BridgeOpts == {FuncOpts, [FuncOpts EXCEPT !.ref_param = OutParamName(1)]}

BridgeInit ==
  /\ \/ \E rtype \in BridgeReturnTypes, kind \in BridgeParamKinds,
          first \in {s_self, OutParamName(0)} :
          bshape = [rtype |-> rtype, name |-> s_abs, sep |-> s_comma_space,
                    params |-> <<BridgeParam(kind[1], first, kind[2])>>]
     \/ \E shape \in PolicyShapes, sep \in BridgeSeparators :
          bshape = [rtype |-> shape.rtype, name |-> shape.name, sep |-> sep,
                    params |-> shape.params]
  /\ bsig = BridgeDecl(bshape)
  /\ bphase = "text"
  /\ bgen = NoBridge
  /\ bref = NoReference
  /\ SigIdle
  /\ OutIdle
  /\ GenIdle

\* The declaration takes one more parameter.
AddBridgeParam ==
  /\ bphase = "text"
  /\ Len(bshape.params) < MaxBridgeParams
  /\ \E kind \in BridgeParamKinds :
       bshape' = [bshape EXCEPT !.params =
                    Append(@, BridgeParam(kind[1], OutParamName(Len(@)), kind[2]))]
  /\ bsig' = BridgeDecl(bshape')
  /\ UNCHANGED <<bphase, bgen, bref, sigvars, outvars, genvars>>

\* The override table parse_local_overrides makes of the declaration of the
\* shape written with ', ' between its parameters.
BridgeOverrides(shape) ==
  LET made == OverrideKey(BridgeDecl([shape EXCEPT !.sep = s_comma_space]))
  IN  IF made.accepted THEN Put(NoOverrides, made.key, made.fndef) ELSE NoOverrides

\* What the properties read of a function record, and whether
\* requires_registration has it registered: when no override names it, and
\* when the override table is that of its declaration and _FN_AUTOGRAD_XLA
\* is empty.
Bridged(fgen, table) ==
  [raised |-> fgen.raised, code |-> fgen.code, func |-> fgen.func,
   rwsig |-> fgen.rwsig, cppsig |-> fgen.cppsig, mapsig |-> fgen.mapsig,
   required |-> ~fgen.raised /\ requires_registration(fgen, NoOverrides, FN_AUTOGRAD_XLA),
   overridden |-> ~fgen.raised /\ requires_registration(fgen, table, {})]

\* get_xla_wrapper on the declaration, of a function with no dispatch entry.
WrapBridge ==
  /\ bphase = "text"
  /\ bgen' = Bridged(get_xla_wrapper(FuncDef(bsig, <<>>, FALSE, TRUE), FunctionsHeader),
                      BridgeOverrides(bshape))
  /\ bphase' = "wrapped"
  /\ UNCHANGED <<bsig, bshape, bref, sigvars, outvars, genvars>>

Reference(fnopts, p) ==
  [fnopts |-> fnopts,
   picked |-> IF p = RaisedTree THEN "raised" ELSE IF IsNone(p) THEN "none" ELSE "param",
   name |-> IF p = RaisedTree \/ IsNone(p) THEN <<>> ELSE param_name(p)]

\* What get_reference_param picks of the parameters of a parsed declaration.
ReferenceOf(fnopts, parsed) ==
  IF ~parsed.ok THEN Reference(fnopts, RaisedTree)
  ELSE Reference(fnopts, get_reference_param(get_parameters(parsed.tree), fnopts))

\* get_reference_param on the parameters of the declaration, with a policy.
PickReference(fnopts) ==
  /\ bphase = "wrapped"
  /\ bref' = ReferenceOf(fnopts, PARSER(bsig))
  /\ bphase' = "picked"
  /\ UNCHANGED <<bsig, bshape, bgen, sigvars, outvars, genvars>>

BridgeNext ==
  \/ AddBridgeParam
  \/ WrapBridge
  \/ \E fnopts \in BridgeOpts : PickReference(fnopts)

BridgeSpec == BridgeInit /\ [][BridgeNext]_vars

\* ------------------------------------------------------ policy properties

BridgeGenerated == bphase \in {"wrapped", "picked"} /\ ~bgen.raised

\* The key is a key of the table but for the spaces.
StrippedIn(keys, key) == \E k \in keys : Stripped(k) = Stripped(key)

\* The body delegates to the function the remap table names.
IsRemapBody(code) == code # None /\ Contains(code, s_return \o s_AtenXlaType)

\* The body is one of the out-variant strategy.
IsOutBody(code) ==
  code # None /\ Contains(code, Cat(<<s_auto, bgen.func, s_tmp_suffix, s_assign>>))

\* The body is one of default bridging.
IsDefaultBody(code) ==
  code # None /\ Contains(code, Cat(<<s_vector_Tensor, s_xlatens, s_tensors_suffix>>))

\* The line of a default body that lists the batch indices written back.
UpdateIndices(indices) ==
  Cat(<<s_vector_size_t, s_xlatens, s_update_indices, s_list_open,
        Join(s_comma_space, [n \in 1..Len(indices) |-> Str(indices[n])]),
        <<"}", ";">> >>)

\* C13 (as the spec states it): a map signature that is a key of a table but
\* for its spaces is found in it: in the override table, _FN_REMAP,
\* _FUNCTION_OPTIONS, _FN_OUT, _FN_BLACKLIST and _FN_AUTOGRAD_XLA.
C13_LookupsIgnoreSpaces ==
  BridgeGenerated =>
    /\ BridgeOverrides(bshape) # NoOverrides => bgen.overridden
    /\ StrippedIn(FN_BLACKLIST, bgen.mapsig) => bgen.code = None
    /\ StrippedIn(DOMAIN FN_OUT, bgen.mapsig) => IsOutBody(bgen.code)
    /\ StrippedIn(DOMAIN FN_REMAP, bgen.mapsig) => IsRemapBody(bgen.code)
    /\ StrippedIn(DOMAIN FUNCTION_OPTIONS, bgen.mapsig) =>
         Contains(bgen.code, UpdateIndices(<<0>>))
    /\ StrippedIn(FN_AUTOGRAD_XLA, bgen.mapsig) => bgen.required

\* C13 (amended): a map signature is found in the override table, made of
\* the declaration written with other spaces, when it is one of its keys but
\* for the spaces; it is found in _FN_REMAP,
\* _FUNCTION_OPTIONS and _FN_AUTOGRAD_XLA exactly when it is one of their
\* keys, spaces included.
C13_OnlyOverridesIgnoreSpaces ==
  BridgeGenerated =>
    /\ BridgeOverrides(bshape) # NoOverrides => bgen.overridden
    /\ IsRemapBody(bgen.code) <=> bgen.mapsig \in DOMAIN FN_REMAP
    /\ StrippedIn(DOMAIN FUNCTION_OPTIONS, bgen.mapsig) =>
         (Contains(bgen.code, UpdateIndices(<<0>>))
            <=> bgen.mapsig \in DOMAIN FUNCTION_OPTIONS)
    /\ bgen.required <=> (bgen.mapsig \in FN_AUTOGRAD_XLA \/ bgen.func \in FN_AUTOGRAD_XLA)

\* A declaration written without spaces after its commas is wrapped: its
\* map signature is a key of _FN_REMAP but for the spaces, its key is found
\* in the override table and its body is not one of the remap strategy.
C13_Witness ==
  /\ BridgeGenerated
  /\ bshape.sep = <<",">>
  /\ bgen.overridden
  /\ bgen.mapsig \notin DOMAIN FN_REMAP
  /\ StrippedIn(DOMAIN FN_REMAP, bgen.mapsig)
  /\ IsDefaultBody(bgen.code)

\* ------------------------------------------- reference parameter properties

Picked == bphase = "picked" /\ bref.picked # "raised"

\* The parameters of the declaration that are a Tensor or an optional
\* Tensor, by their positions.
TensorParams ==
  {i \in 1..Len(bshape.params) :
     bshape.params[i].type \in {s_type_Tensor_ref, s_type_const_Tensor_ref,
                                s_type_const_optional_Tensor_ref}}

\* (a) the parameters the policy names.
NamedParams == {i \in 1..Len(bshape.params) : bshape.params[i].name = bref.fnopts.ref_param}

\* (b) the Tensor parameters named self or declared const.
SelfOrConstParams ==
  {i \in TensorParams :
     bshape.params[i].name = s_self \/ StartsAt(bshape.params[i].type, s_const, 1)}

\* The parameters of type TensorOptions, TensorList or Device.
OptionsParams ==
  {i \in 1..Len(bshape.params) :
     bshape.params[i].type \in {s_type_TensorList, s_type_const_TensorOptions_ref}}

\* The parameter at position i is the one picked; none is for i = 0.
PickedIs(i) ==
  IF i = 0 THEN bref.picked = "none"
  ELSE bref.picked = "param" /\ bref.name = bshape.params[i].name

\* C14 (as the spec states it): the parameter picked is (a) the one the
\* policy names, else (b) the first Tensor named self or const, else (c) the
\* first TensorOptions, TensorList or Device parameter, else (d) the last
\* Tensor parameter.
C14_OptionsBeforeTensor ==
  Picked =>
    PickedIs(IF NamedParams # {} THEN First(NamedParams)
             ELSE IF SelfOrConstParams # {} THEN First(SelfOrConstParams)
             ELSE IF OptionsParams # {} THEN First(OptionsParams)
             ELSE IF TensorParams # {} THEN Last(TensorParams)
             ELSE 0)

\* C14 (amended): the parameter picked is (a) the one the policy names, else
\* (b) the first Tensor named self or const, else (c) the last Tensor
\* parameter, else (d) the first TensorOptions, TensorList or Device
\* parameter, and none when there is none of these.
C14_TensorBeforeOptions ==
  Picked =>
    PickedIs(IF NamedParams # {} THEN First(NamedParams)
             ELSE IF SelfOrConstParams # {} THEN First(SelfOrConstParams)
             ELSE IF TensorParams # {} THEN Last(TensorParams)
             ELSE IF OptionsParams # {} THEN First(OptionsParams)
             ELSE 0)

\* A list with no parameter of kind (a) or (b), with a TensorOptions or
\* TensorList parameter and with two Tensor parameters, the last of which
\* is picked.
C14_Witness ==
  /\ Picked
  /\ NamedParams = {}
  /\ SelfOrConstParams = {}
  /\ OptionsParams # {}
  /\ Cardinality(TensorParams) = 2
  /\ PickedIs(Last(TensorParams))

\* ---------------------------------------------------- strategy properties

\* The function is blacklisted: by its name, by its map signature or by
\* the regular expression of _FN_BLACKLIST_REGEX.
Blacklisted ==
  \/ bgen.func \in FN_BLACKLIST
  \/ bgen.mapsig \in FN_BLACKLIST
  \/ MatchesCudnn(bgen.func)
  \/ MatchesCudnn(bgen.mapsig)

\* _FN_OUT has the name or the map signature; _FN_OUT_REGEX is empty.
OutMatch == bgen.func \in DOMAIN FN_OUT \/ bgen.mapsig \in DOMAIN FN_OUT

\* _FN_REMAP has the name or the map signature.
RemapMatch == bgen.func \in DOMAIN FN_REMAP \/ bgen.mapsig \in DOMAIN FN_REMAP

\* Which strategies the body is one of.
BodyKinds ==
  {k \in {"out", "remap", "default"} :
     \/ k = "out" /\ IsOutBody(bgen.code)
     \/ k = "remap" /\ IsRemapBody(bgen.code)
     \/ k = "default" /\ IsDefaultBody(bgen.code)}

C15_WitnessBlacklisted == BridgeGenerated /\ Blacklisted /\ bgen.code = None

\* A function of the out-variant table is wrapped.
C15_WitnessOut == BridgeGenerated /\ ~Blacklisted /\ OutMatch /\ BodyKinds = {"out"}

\* ------------------------------------------------ return statement properties

\* 'std::tuple<at::Tensor &,at::Tensor>'
s_rw_tuple_ref_value == <<"s","t","d",":",":","t","u","p","l","e","<","a",
  "t",":",":","T","e","n","s","o","r"," ","&",",","a","t",":",":","T","e",
  "n","s","o","r",">">>

\* A body of default bridging is generated for the declaration.
DefaultGenerated == BridgeGenerated /\ IsDefaultBody(bgen.code)

\* The statement that returns the value.
ReturnOf(value) == Cat(<<s_return, value, <<";">> >>)

\* C16 (as the spec states it): the body of a function whose return type is
\* const or a reference returns its first parameter, whatever the core type
\* of the return type; the body of a function that returns a tuple returns,
\* for an element that is a reference, the parameter at its index.
C16_ReturnsParameterAnyCore ==
  DefaultGenerated =>
    /\ bshape.rtype \in {s_Tensor_ref, s_rtype_const_Tensor_ref, s_rtype_const_Scalar_ref} =>
         Returns(bgen.code) = <<ReturnOf(bshape.params[1].name)>>
    /\ bshape.rtype = s_rtype_tuple_ref_value =>
         /\ Len(Returns(bgen.code)) = 1
         /\ StartsAt(Returns(bgen.code)[1],
                     Cat(<<s_return, s_rw_tuple_ref_value, <<"(">>, bshape.params[1].name,
                           s_comma_space>>), 1)

\* C16 (amended): the body of a function whose return type is a Tensor that
\* is const or a reference returns its first parameter; the body of a
\* function that returns a tuple returns, for an element that is a
\* reference, the parameter at its index; the body of a function whose
\* return type is a const reference of another core type returns the
\* native result.
C16_ReturnsParameterOfTensor ==
  DefaultGenerated =>
    /\ bshape.rtype \in {s_Tensor_ref, s_rtype_const_Tensor_ref} =>
         Returns(bgen.code) = <<ReturnOf(bshape.params[1].name)>>
    /\ bshape.rtype = s_rtype_tuple_ref_value =>
         /\ Len(Returns(bgen.code)) = 1
         /\ StartsAt(Returns(bgen.code)[1],
                     Cat(<<s_return, s_rw_tuple_ref_value, <<"(">>, bshape.params[1].name,
                           s_comma_space>>), 1)
    /\ bshape.rtype = s_rtype_const_Scalar_ref =>
         Returns(bgen.code) = <<ReturnOf(RESULT_NAME)>>

\* A body of default bridging is generated for a function that returns a
\* reference to a Tensor and takes a Tensor after a parameter that is no
\* Tensor: it returns the first parameter.
C16_Witness ==
  /\ DefaultGenerated
  /\ bshape.rtype = s_Tensor_ref
  /\ Len(bshape.params) >= 2
  /\ bshape.params[1].type = s_type_int64_t
  /\ bshape.params[2].type = s_type_Tensor_ref
  /\ Returns(bgen.code) = <<ReturnOf(bshape.params[1].name)>>

\* A body of default bridging is generated for a function that returns a
\* tuple with a reference for its first element.
C16_WitnessTuple ==
  /\ DefaultGenerated
  /\ bshape.rtype = s_rtype_tuple_ref_value
  /\ Len(Returns(bgen.code)) = 1

\* ---------------------------------------------------- write-back properties

\* The lines of a body that start with the prefix.
LinesWith(code, prefix) == SelectSeq(SplitLines(code), LAMBDA l : StartsAt(l, prefix, 1))

\* The plain Tensor parameters of the declaration, in their order.
PlainTensors ==
  SelectSeq(bshape.params,
            LAMBDA q : q.type \in {s_type_Tensor_ref, s_type_const_Tensor_ref})

\* The names _FUNCTION_OPTIONS has for wparams of the function.
Wparams ==
  IF bgen.mapsig \in DOMAIN FUNCTION_OPTIONS
    THEN {FUNCTION_OPTIONS[bgen.mapsig].wparams[n] :
            n \in 1..Len(FUNCTION_OPTIONS[bgen.mapsig].wparams)}
    ELSE {}

\* The plain Tensor parameter is to be written back.
Writable(q) == q.type = s_type_Tensor_ref \/ q.name \in Wparams

\* The batch indices of the writable parameters, in increasing order.
WritableIndices ==
  SelectSeq([k \in 1..Len(PlainTensors) |-> k - 1], LAMBDA i : Writable(PlainTensors[i + 1]))

\* The position of a plain Tensor parameter among the plain Tensor
\* parameters, counted from 0.
BatchIndex(i) ==
  Cardinality({j \in 1..(i - 1) :
                 bshape.params[j].type \in {s_type_Tensor_ref, s_type_const_Tensor_ref}})

\* The position of an optional Tensor among the optional Tensors, from 0.
OptIndex(i) ==
  Cardinality({j \in 1..(i - 1) : bshape.params[j].type = s_type_const_optional_Tensor_ref})

\* The name parameter i is passed on under.
PassedAs(i) ==
  IF bshape.params[i].type \in {s_type_Tensor_ref, s_type_const_Tensor_ref}
    THEN Cat(<<s_xlatens, <<"[">>, Str(BatchIndex(i)), <<"]">> >>)
  ELSE IF bshape.params[i].type = s_type_const_optional_Tensor_ref
    THEN Cat(<<s_xlatens, s_opt_suffix, <<"[">>, Str(OptIndex(i)), <<"]">> >>)
  ELSE IF bshape.params[i].type = s_type_TensorList
    THEN s_l_prefix \o bshape.params[i].name
  ELSE bshape.params[i].name

\* C17: in a body of default bridging the batch is the plain Tensor
\* parameters in their order, the k-th of them is passed on as element k of
\* the batch, and the write-back lists the batch indices of the writable
\* ones in increasing order, a plain Tensor being writable when it is not
\* const or wparams names it; there is no write-back when none is writable,
\* and no other parameter has an index in it.
C17_WriteBackIndices ==
  DefaultGenerated =>
    /\ LinesWith(bgen.code, s_vector_Tensor)
         = <<Cat(<<s_vector_Tensor, s_xlatens, s_tensors_suffix, s_list_open,
                   Join(s_comma_space, [k \in 1..Len(PlainTensors) |-> PlainTensors[k].name]),
                   <<"}", ";">> >>)>>
    /\ bshape.name = s_abs =>
         LinesWith(bgen.code, s_indent \o s_auto_ref)
           = <<Cat(<<s_indent, s_auto_ref, RESULT_NAME, s_assign, s_at, s_abs, <<"(">>,
                     Join(s_comma_space, [i \in 1..Len(bshape.params) |-> PassedAs(i)]),
                     <<")", ";">> >>)>>
    /\ \A n \in 1..Len(WritableIndices) :
         /\ WritableIndices[n] < Len(PlainTensors)
         /\ n > 1 => WritableIndices[n - 1] < WritableIndices[n]
    /\ LinesWith(bgen.code, s_vector_size_t)
         = IF WritableIndices = <<>> THEN <<>> ELSE <<UpdateIndices(WritableIndices)>>
    /\ LinesWith(bgen.code, s_XlaUpdateTensorsCall)
         = IF WritableIndices = <<>> THEN <<>>
           ELSE <<Cat(<<s_XlaUpdateTensorsCall, s_xlatens, s_tensors_suffix, s_comma_space,
                        s_xlatens, s_comma_space, s_xlatens, s_update_indices,
                        <<")", ";">> >>)>>

\* A body of default bridging is generated for a function that takes a
\* const Tensor, a TensorList and a Tensor that is not const: the
\* write-back lists the index 1.
C17_Witness ==
  /\ DefaultGenerated
  /\ Len(bshape.params) = 3
  /\ bshape.params[1].type = s_type_const_Tensor_ref
  /\ bshape.params[2].type = s_type_TensorList
  /\ bshape.params[3].type = s_type_Tensor_ref
  /\ WritableIndices = <<1>>
  /\ LinesWith(bgen.code, s_vector_size_t) = <<UpdateIndices(<<1>>)>>

\* A body of default bridging is generated for a function with a const
\* Tensor that wparams names: the write-back lists its index.
C17_WitnessWparams ==
  /\ DefaultGenerated
  /\ Wparams # {}
  /\ PlainTensors # <<>>
  /\ PlainTensors[1].type = s_type_const_Tensor_ref
  /\ LinesWith(bgen.code, s_vector_size_t) = <<UpdateIndices(<<0>>)>>

\* A body of default bridging is generated for a function with no
\* writable parameter and with an optional Tensor: it has no write-back.
C17_WitnessNone ==
  /\ DefaultGenerated
  /\ WritableIndices = <<>>
  /\ \E i \in 1..Len(bshape.params) : bshape.params[i].type = s_type_const_optional_Tensor_ref
  /\ LinesWith(bgen.code, s_XlaUpdateTensorsCall) = <<>>

\* ------------------------------------------------------ signature properties

\* The text of a type of the declarations, its type names qualified as
\* _TYPE_NSMAP has them.
Qualified(type) ==
  Replace(Replace(Replace(type, s_Tensor, s_at \o s_Tensor), s_Scalar, s_at \o s_Scalar),
          s_IntArrayRef, s_at \o s_IntArrayRef)

\* The declaration of the shape with its types qualified and its function
\* a member of AtenXlaTypeDefault, with or without the default values.
QualifiedDecl(shape, defaults) ==
  Cat(<<Qualified(shape.rtype), <<" ">>, s_AtenXlaTypeDefault, shape.name, <<"(">>,
        Join(shape.sep, [i \in 1..Len(shape.params) |->
                           Cat(<<Qualified(shape.params[i].type), shape.params[i].name,
                                 IF defaults THEN shape.params[i].defval ELSE <<>> >>)]),
        <<")">> >>)

\* C18 (as the spec states it): cppsig is the declaration with its type
\* names qualified and with every parameter name and every default value.
C18_KeepsDefaults == BridgeGenerated => bgen.cppsig = QualifiedDecl(bshape, TRUE)

\* C18 (amended): cppsig is the declaration with its type names qualified
\* and with every parameter name, and without the default values.
C18_DropsDefaults == BridgeGenerated => bgen.cppsig = QualifiedDecl(bshape, FALSE)

\* A declaration with a parameter of a qualified type and a parameter with
\* a default value is wrapped.
C18_Witness ==
  /\ BridgeGenerated
  /\ \E i, j \in 1..Len(bshape.params) :
       /\ bshape.params[i].defval # <<>>
       /\ Qualified(bshape.params[j].type) # bshape.params[j].type
  /\ bgen.cppsig = QualifiedDecl(bshape, FALSE)
  /\ bgen.cppsig # QualifiedDecl(bshape, TRUE)

\* ------------------------------------------------------ ordering properties

\* What was reported on the error stream under the heading.
Reported(what) == SelectSeq(stderr, LAMBDA r : r.what = what)

\* The step reads the override source.
ReadsOverrides == pc = "overrides" /\ pc' # "overrides"

\* The step checks for unused overrides.
ChecksOverrides == pc = "check" /\ pc' # "check"

\* The step writes an output file.
WritesOutput == files' # files

\* The scan of the declaration source was reported and no error was found.
DeclarationsPassed ==
  /\ errors = <<>>
  /\ Reported("error") = <<>>
  /\ Reported("extracted") = <<Report("extracted", <<Len(fndefs), 0>>)>>

\* Every function found has its record or its failure reported, and the
\* listings and both registration tables are built of the records.
AllWrapped ==
  /\ Len(fgens) + Len(Reported("failed")) = Len(fndefs)
  /\ Reported("generated") = <<Report("generated", Len(fgens))>>
  /\ generated.functions = generate_functions(fgens, overrides, fn_autograd_xla)
  /\ generated.hfunctions = generate_class_functions(fgens, overrides, fn_autograd_xla)
  /\ generated.aten_code # <<>>
  /\ generated.autogradxla_code # <<>>

\* C19: in every run the override source is read only after the
\* declaration source was scanned to its end without an error; the unused
\* overrides are checked only after every wrapper was synthesized and the
\* listings and both tables were built; an output file is written only
\* after both checks passed, and then both files are written; a run that
\* ended before its end has written no output file.
C19_ChecksBeforeOutputs ==
  /\ [][/\ ReadsOverrides => line > Len(args.typedef) /\ DeclarationsPassed
        /\ ChecksOverrides => DeclarationsPassed /\ AllWrapped
        /\ WritesOutput =>
             /\ DeclarationsPassed
             /\ AllWrapped
             /\ Reported("missed") = <<>>
             /\ Keys(overrides) \subseteq generated.overridden
             /\ files = NoFiles
             /\ files'.h # None
             /\ files'.cpp # None]_vars
  /\ [](failed # "none" => pc = "aborted" /\ files = NoFiles)

\* A run with an override and a wrapper has written both files.
C19_Witness ==
  /\ pc = "done"
  /\ files.h # None
  /\ files.cpp # None
  /\ overrides # NoOverrides
  /\ fgens # <<>>

\* A run ended on an unused override with no output file written.
C19_WitnessUnused == failed = "check" /\ Reported("missed") # <<>> /\ files = NoFiles

\* A run ended on a parse error with no output file written.
C19_WitnessErrors == failed = "errors" /\ errors # <<>> /\ files = NoFiles

====
